---------------------------- MODULE Spec2Model ----------------------------
(***************************************************************************)
(* Iceberg score engine and back-test harness (AppStreetHQ/Iceberg).       *)
(*                                                                         *)
(* Number representation.  Closing prices are whole numbers of price      *)
(* units.  Every other float of the program (moving averages, RSI,         *)
(* distance from high, forward returns) is an exact fraction               *)
(* [n |-> numerator, d |-> denominator] with d > 0; the absent value       *)
(* (Python None) of an Optional[float] is the fraction with d = 0.         *)
(* Comparisons are made by cross-multiplication, int() truncates toward    *)
(* zero and round() rounds half to even, as Python does.  An absent bias   *)
(* is the string "None"; an absent or empty price list is << >> (every     *)
(* use in the source is guarded by `if closes`, which treats both alike).  *)
(***************************************************************************)
EXTENDS Integers, Sequences, FiniteSets, TLC

VARIABLES
    closes,      \* price history handed to the indicators and calculators
    args,        \* the indicator arguments of a calculator call
    trade,       \* ScoreResult of calculate_trade_score
    inv,         \* ScoreResult of calculate_investment_score
    shown,       \* what the UI displays: scores, raw scores and labels
    phase,       \* position of the scoring session
    db,          \* prices_daily rows of the ticker: day -> close, or NoRow
    asof,        \* as-of date of the calculate_score_at_date call
    outcome,     \* what the last calculate_score_at_date call returned or raised
    baseline,    \* outcome of the first call at this as-of date
    edits,       \* number of changes made to rows on or after the as-of date
    fwd,         \* last calculate_forward_return call: horizon, prices, value
    current_date,\* loop variable of backtest_ticker
    results,     \* the BacktestResult list of backtest_ticker
    span,        \* start_date, end_date and interval_days of backtest_ticker
    pc,          \* position of backtest_ticker
    call,        \* a direct call of a library function: its name and arguments
    ret,         \* what that call returned or raised, or the state of its loop
    app,         \* IcebergApp: constructed, then mounted
    last_market_state,     \* IcebergApp.last_market_state
    closing_refresh_done,  \* IcebergApp.closing_refresh_done
    update_worker,         \* IcebergApp._update_worker: 0 (None) or the index of a worker
    is_auto_refresh,       \* IcebergApp._is_auto_refresh
    workers,     \* every worker run_worker has started, in order
    triggers,    \* history: the manual updates and timer ticks handled so far
    now,         \* time.time(), in ticks
    last_request_time,     \* FinnhubClient.last_request_time
    thread,      \* position of each thread inside FinnhubClient._request
    sent         \* history: the time at which each HTTP request started

scoreVars == <<closes, args, trade, inv, shown, phase>>

btVars == <<db, asof, outcome, baseline, edits, fwd, current_date, results, span, pc>>

libVars == <<call, ret>>

appVars == <<app, last_market_state, closing_refresh_done, update_worker, is_auto_refresh, workers, triggers>>

apiVars == <<now, last_request_time, thread, sent>>

uiVars == <<appVars, apiVars>>

vars == <<closes, args, trade, inv, shown, phase, db, asof, outcome, baseline, edits, fwd, current_date, results, span, pc, call, ret, app, last_market_state, closing_refresh_done, update_worker, is_auto_refresh, workers, triggers, now, last_request_time, thread, sent>>

-----------------------------------------------------------------------------
(* Fractions and Python list helpers                                       *)

None == "None"

NoneF == [n |-> 0, d |-> 0]

\* outcome of a call: the value it returned, or the exception it raised
Returned(value) == [kind |-> "returned", value |-> value]

Raised(exception) == [kind |-> "raised", value |-> exception]

Frac(a, b) == [n |-> a, d |-> b]

IsNone(x) == x.d = 0

\* Python truthiness of an Optional[float]: None and 0.0 are falsy
Truthy(x) == x.d # 0 /\ x.n # 0

FLt(x, y) == x.n * y.d < y.n * x.d

FLe(x, y) == x.n * y.d <= y.n * x.d

Abs(i) == IF i < 0 THEN -i ELSE i

\* int(a / b) for b > 0: truncation toward zero
TruncDiv(a, b) == IF a >= 0 THEN a \div b ELSE -((-a) \div b)

\* int(round(a / b)) for b > 0: Python 3 rounds halves to the even integer
RoundDiv(a, b) ==
    LET q == a \div b
        r == a % b
    IN  IF 2 * r < b THEN q
        ELSE IF 2 * r > b THEN q + 1
        ELSE IF q % 2 = 0 THEN q ELSE q + 1

\* s[i] with Python's 0-based index
At(s, i) == s[i + 1]

\* s[lo:hi] with 0-based, half-open, non-negative bounds
Slice(s, lo, hi) ==
    LET h == IF hi > Len(s) THEN Len(s) ELSE hi
    IN  IF lo >= h THEN << >> ELSE SubSeq(s, lo + 1, h)

\* s[-k:] for k >= 1
LastN(s, k) == IF k >= Len(s) THEN s ELSE SubSeq(s, Len(s) - k + 1, Len(s))

RECURSIVE Loop(_, _, _, _)
\* state after `for i in range(lo, hi + 1): state = Step(state, i)`.  The range
\* is split in halves so that the evaluation nests only logarithmically deep;
\* the test left = left makes TLC evaluate the first half before the second
\* starts (it would otherwise defer it, and nest linearly deep after all).
Loop(Step(_, _), state, lo, hi) ==
    IF lo > hi THEN state
    ELSE IF lo = hi THEN Step(state, lo)
    ELSE LET mid == (lo + hi) \div 2
             left == Loop(Step, state, lo, mid)
         IN  IF left = left THEN Loop(Step, left, mid + 1, hi) ELSE left

\* sum of s[lo..hi], 1-based inclusive
SumFrom(s, lo, hi) == Loop(LAMBDA acc, i : acc + s[i], 0, lo, hi)

SumSeq(s) == SumFrom(s, 1, Len(s))

\* max(s[lo..hi]), 1-based inclusive, lo <= hi
MaxFrom(s, lo, hi) == Loop(LAMBDA m, i : IF s[i] > m THEN s[i] ELSE m, s[lo], lo, hi)

MaxSeq(s) == MaxFrom(s, 1, Len(s))

\* min(s[lo..hi]), 1-based inclusive, lo <= hi
MinFrom(s, lo, hi) == Loop(LAMBDA m, i : IF s[i] < m THEN s[i] ELSE m, s[lo], lo, hi)

MinSeq(s) == MinFrom(s, 1, Len(s))

\* list.index(v): 0-based position of the first occurrence
IndexOf(s, v) == (CHOOSE i \in 1..Len(s) : s[i] = v /\ \A j \in 1..(i - 1) : s[j] # v) - 1

\* int(x) of a fraction with non-zero denominator
TruncF(x) == IF x.d > 0 THEN TruncDiv(x.n, x.d) ELSE TruncDiv(-x.n, -x.d)

-----------------------------------------------------------------------------
(* scoring.py: weights                                                     *)

TRADE_MACD_WEIGHT == 25
TRADE_RSI_WEIGHT == 15
TRADE_SMA10_WEIGHT == 20
TRADE_TREND10_WEIGHT == 20
TRADE_VOLATILITY_WEIGHT == 5
TRADE_RECOVERY_BONUS == 20
TRADE_POST_SHOCK_BONUS == 60
TRADE_CAPITULATION_BONUS == 205
TRADE_CHEAP_WINNER_BONUS == 15
TRADE_RSI_OVERSOLD_BONUS == 10
RESILIENCE_HIGH == 3
TRADE_MAX_POINTS == 395
INV_MAX_POINTS == 465
\* a capitulation bonus for investors that is smaller than the post-shock bonus
INV_CAPITULATION_BONUS_cautious == 60 - 20

INV_CAPITULATION_BONUS == 60
INV_POST_SHOCK_BONUS == 60
INV_CHEAP_WINNER_BONUS == 15

\* the high-resilience multiplier taken as a discount: int(bonus * 0.8)
TimesMultiplierHigh_discount(bonus) == TruncDiv(bonus * 8, 10)

\* int(bonus * RESILIENCE_MULTIPLIER_HIGH), the multiplier being 1.2
TimesMultiplierHigh(bonus) == TruncDiv(bonus * 12, 10)

\* int(bonus * RESILIENCE_MULTIPLIER_LOW), the multiplier being 0.8
TimesMultiplierLow(bonus) == TruncDiv(bonus * 8, 10)

-----------------------------------------------------------------------------
(* scoring.py: component scoring functions                                 *)

score_macd(macd_bias, weight) ==
    IF macd_bias = None THEN 0
    ELSE IF macd_bias = "bull" THEN weight
    ELSE IF macd_bias = "bear" THEN -weight
    ELSE 0

score_rsi(rsi_value, rsi_bias, weight) ==
    IF rsi_bias = None \/ IsNone(rsi_value) THEN 0
    ELSE IF rsi_bias = "oversold" THEN weight
    ELSE IF rsi_bias = "weak" THEN TruncDiv(-weight * 67, 100)
    ELSE IF rsi_bias = "neutral" THEN 0
    ELSE IF rsi_bias = "strong" THEN TruncDiv(weight * 67, 100)
    ELSE IF rsi_bias = "overbought" THEN -weight
    ELSE 0

score_sma_position(current_price, sma_value, weight) ==
    IF ~Truthy(sma_value) THEN 0
    ELSE LET \* ((price - sma) / sma) * 100
             pct_diff == Frac(100 * (current_price.n * sma_value.d - sma_value.n * current_price.d),
                              sma_value.n * current_price.d)
             score == TruncF(pct_diff)
         IN  IF score > weight THEN weight
             ELSE IF score < -weight THEN -weight
             ELSE score

score_trend(trend_bias, weight) ==
    IF trend_bias = None THEN 0
    ELSE IF trend_bias = "up" THEN weight
    ELSE IF trend_bias = "down" THEN -weight
    ELSE 0

score_volatility_trade(volatility_bias, weight) ==
    IF volatility_bias = None THEN 0
    ELSE IF volatility_bias \in {"calm", "wild"} THEN weight
    ELSE 0

score_volatility_investment(volatility_bias, weight) ==
    IF volatility_bias = None THEN 0
    ELSE IF volatility_bias = "calm" THEN weight
    ELSE IF volatility_bias = "wild" THEN -weight
    ELSE 0

\* returns <<base_score, bonus>>
score_rsi_contextual(rsi_value, rsi_bias, long_term_trend, weight) ==
    LET base_score == score_rsi(rsi_value, rsi_bias, weight)
    IN  IF rsi_bias = "oversold" /\ long_term_trend = "up"
            THEN <<base_score, TRADE_RSI_OVERSOLD_BONUS>>
        ELSE IF rsi_bias = "oversold" /\ long_term_trend = "down"
            THEN <<TruncDiv(base_score * 3, 10), 0>>
        ELSE <<base_score, 0>>

score_volatility_resilient(volatility_bias, resilience_count, weight, score_type) ==
    LET base_score == IF score_type = "trade"
                          THEN score_volatility_trade(volatility_bias, weight)
                          ELSE score_volatility_investment(volatility_bias, weight)
    IN  IF volatility_bias = "wild" /\ score_type = "investment"
            THEN IF resilience_count >= RESILIENCE_HIGH THEN TruncDiv(base_score * 5, 10)
                 ELSE IF resilience_count = 0 THEN TruncDiv(base_score * 15, 10)
                 ELSE base_score
        ELSE base_score

-----------------------------------------------------------------------------
(* scoring.py: pattern detectors                                           *)

\* detect_recovery_pattern that asks for a price above the SMA(50)
detect_recovery_pattern_above_sma50(current_price, sma10, sma50, trend10_bias, trend50_bias) ==
    IF ~(Truthy(sma10) /\ Truthy(sma50) /\ trend10_bias # None /\ trend50_bias # None)
        THEN FALSE
    ELSE /\ FLt(sma50, current_price)
         /\ FLt(sma10, current_price)
         /\ trend10_bias = "up"
         /\ trend50_bias = "up"

detect_recovery_pattern(current_price, sma10, sma50, trend10_bias, trend50_bias) ==
    IF ~(Truthy(sma10) /\ Truthy(sma50) /\ trend10_bias # None /\ trend50_bias # None)
        THEN FALSE
    ELSE /\ FLt(current_price, sma50)
         /\ FLt(sma10, current_price)
         /\ trend10_bias = "up"
         /\ trend50_bias = "up"

\* was some close of the trailing 60 above the SMA(100) of the closes before it
HistoricalStrength60(cl) ==
    \E i \in 0..59 :
        LET n == Len(cl)
            \* window = closes[:-(60-i)] if i < 59 else closes
            wlen == IF i < 59 THEN n - (60 - i) ELSE n
        IN  /\ wlen >= 100
            \* lookback[i] > sum(window[-100:]) / 100
            /\ 100 * At(cl, n - 60 + i) > SumFrom(cl, wlen - 99, wlen)

\* detect_post_shock_recovery that needs both recovery signals, RSI above 20
\* and a stabilizing price
detect_post_shock_recovery_both_signals(current_price, distance_from_high, rsi_value, macd_hist, long_term_trend, cl, sma100) ==
    IF IsNone(distance_from_high) THEN FALSE
    ELSE IF FLt(Frac(-10, 1), distance_from_high) THEN FALSE
    ELSE LET historical_strength ==
                 /\ Len(cl) > 0 /\ Truthy(sma100) /\ Len(cl) >= 60
                 /\ HistoricalStrength60(cl)
             rsi_not_panic == ~IsNone(rsi_value) /\ FLt(Frac(20, 1), rsi_value)
             stabilizing ==
                 /\ Len(cl) >= 5
                 /\ FLe(Frac(98 * MinSeq(LastN(cl, 5)), 100), current_price)
         IN  IF ~historical_strength THEN FALSE
             ELSE rsi_not_panic /\ stabilizing

detect_post_shock_recovery(current_price, distance_from_high, rsi_value, macd_hist, long_term_trend, cl, sma100) ==
    IF IsNone(distance_from_high) THEN FALSE
    ELSE IF FLt(Frac(-10, 1), distance_from_high) THEN FALSE
    ELSE LET historical_strength ==
                 /\ Len(cl) > 0 /\ Truthy(sma100) /\ Len(cl) >= 60
                 /\ HistoricalStrength60(cl)
             rsi_not_panic == ~IsNone(rsi_value) /\ FLt(Frac(20, 1), rsi_value)
             stabilizing ==
                 /\ Len(cl) >= 5
                 \* current_price >= recent_low * 0.98
                 /\ FLe(Frac(98 * MinSeq(LastN(cl, 5)), 100), current_price)
         IN  IF ~historical_strength THEN FALSE
             ELSE rsi_not_panic \/ stabilizing

detect_cheap_on_winner(current_price, sma20, sma100, long_term_trend, rsi_value) ==
    IF ~(Truthy(sma20) /\ Truthy(sma100) /\ long_term_trend # None) THEN FALSE
    ELSE /\ FLt(current_price, sma20)
         /\ FLt(sma100, current_price)
         /\ long_term_trend = "up"
         /\ (IsNone(rsi_value) \/ FLt(rsi_value, Frac(50, 1)))

\* was closes[i] above the mean of the 100 closes before it, for some
\* i >= 100 from the rally start onward (0-based i)
WasAboveSma100(cl, rally_start_idx) ==
    \E i \in rally_start_idx..(Len(cl) - 1) :
        /\ i >= 100
        /\ 100 * At(cl, i) > SumFrom(cl, i - 99, i)

\* detect_proven_winner_capitulation without criterion 3, the RSI below 20
detect_proven_winner_capitulation_any_rsi(current_price, cl, sma100, rsi_value, distance_from_high) ==
    IF Len(cl) < 90 THEN Returned(FALSE)
    ELSE IF IsNone(distance_from_high) \/ FLt(Frac(-30, 1), distance_from_high) THEN Returned(FALSE)
    ELSE LET n == Len(cl)
             lookback_90d == LastN(cl, 90)
             rally_peak_price == MaxSeq(lookback_90d)
             peak_idx == n - 90 + IndexOf(lookback_90d, rally_peak_price)
             prices_before_peak == Slice(cl, n - 90, peak_idx + 1)
         IN  IF Len(prices_before_peak) < 30 THEN Returned(FALSE)
             ELSE LET rally_start_price == MinSeq(prices_before_peak)
                      rally_start_idx == (n - 90) + IndexOf(prices_before_peak, rally_start_price)
                  IN  \* ((rally_peak_price - rally_start_price) / rally_start_price) * 100
                      IF rally_start_price = 0 THEN Raised("ZeroDivisionError")
                      \* rally_gain_pct < 40
                      ELSE IF (rally_peak_price - rally_start_price) * 100 < 40 * rally_start_price
                          THEN Returned(FALSE)
                      \* current_price > rally_start_price * 1.10
                      ELSE IF FLt(Frac(110 * rally_start_price, 100), current_price)
                          THEN Returned(FALSE)
                      ELSE IF IsNone(sma100) THEN Returned(FALSE)
                      ELSE Returned(WasAboveSma100(cl, rally_start_idx))

\* the outcome of the call: the bool it returns, or the ZeroDivisionError
\* of the rally gain when the rally started at a price of 0
detect_proven_winner_capitulation(current_price, cl, sma100, rsi_value, distance_from_high) ==
    IF Len(cl) < 90 THEN Returned(FALSE)
    ELSE IF IsNone(rsi_value) \/ FLe(Frac(20, 1), rsi_value) THEN Returned(FALSE)
    ELSE IF IsNone(distance_from_high) \/ FLt(Frac(-30, 1), distance_from_high) THEN Returned(FALSE)
    ELSE LET n == Len(cl)
             lookback_90d == LastN(cl, 90)
             rally_peak_price == MaxSeq(lookback_90d)
             peak_idx == n - 90 + IndexOf(lookback_90d, rally_peak_price)
             prices_before_peak == Slice(cl, n - 90, peak_idx + 1)
         IN  IF Len(prices_before_peak) < 30 THEN Returned(FALSE)
             ELSE LET rally_start_price == MinSeq(prices_before_peak)
                      rally_start_idx == (n - 90) + IndexOf(prices_before_peak, rally_start_price)
                  IN  \* ((rally_peak_price - rally_start_price) / rally_start_price) * 100
                      IF rally_start_price = 0 THEN Raised("ZeroDivisionError")
                      \* rally_gain_pct < 40
                      ELSE IF (rally_peak_price - rally_start_price) * 100 < 40 * rally_start_price
                          THEN Returned(FALSE)
                      \* current_price > rally_start_price * 1.10
                      ELSE IF FLt(Frac(110 * rally_start_price, 100), current_price)
                          THEN Returned(FALSE)
                      ELSE IF IsNone(sma100) THEN Returned(FALSE)
                      ELSE Returned(WasAboveSma100(cl, rally_start_idx))

-----------------------------------------------------------------------------
(* indicators.py: the indicator library                                    *)

\* fixed-point scale of the EMA/MACD values (five decimal places)
EmaScale == 100000

\* values are fixed-point numbers (scaled by EmaScale);
\* ema[i] = values[i]*k + ema[i-1]*(1-k) with k = 2/(period+1)
compute_ema(values, period) ==
    IF Len(values) < period THEN << >>
    ELSE Loop(LAMBDA ema, i :
                  Append(ema, TruncDiv(2 * At(values, i) + (period - 1) * ema[i], period + 1)),
              <<values[1]>>, 1, Len(values) - 1)

MACDResult(macd, signal, hist, bias) ==
    [macd |-> macd, signal |-> signal, hist |-> hist, bias |-> bias]

\* the absent MACDResult
NoMACD == MACDResult(NoneF, NoneF, NoneF, None)

\* compute_macd whose MACD line is slow - fast
compute_macd_slow_minus_fast(cl) ==
    IF Len(cl) < 26 THEN NoMACD
    ELSE LET scaled == [i \in 1..Len(cl) |-> cl[i] * EmaScale]
             fast_ema == compute_ema(scaled, 12)
             slow_ema == compute_ema(scaled, 26)
         IN  IF fast_ema = << >> \/ slow_ema = << >> THEN NoMACD
             ELSE LET macd_line == [i \in 1..Len(cl) |-> slow_ema[i] - fast_ema[i]]
                      signal == compute_ema(macd_line, 9)
                  IN  IF signal = << >> THEN NoMACD
                      ELSE LET macd_val == macd_line[Len(macd_line)]
                               signal_val == signal[Len(signal)]
                               hist == macd_val - signal_val
                               \* abs(hist) < 0.01
                               bias == IF 100 * Abs(hist) < EmaScale THEN "neutral"
                                       ELSE IF hist > 0 THEN "bull"
                                       ELSE "bear"
                           IN  MACDResult(Frac(macd_val, EmaScale), Frac(signal_val, EmaScale),
                                          Frac(hist, EmaScale), bias)

compute_macd(cl) ==
    IF Len(cl) < 26 THEN NoMACD
    ELSE LET scaled == [i \in 1..Len(cl) |-> cl[i] * EmaScale]
             fast_ema == compute_ema(scaled, 12)
             slow_ema == compute_ema(scaled, 26)
         IN  IF fast_ema = << >> \/ slow_ema = << >> THEN NoMACD
             ELSE LET macd_line == [i \in 1..Len(cl) |-> fast_ema[i] - slow_ema[i]]
                      signal == compute_ema(macd_line, 9)
                  IN  IF signal = << >> THEN NoMACD
                      ELSE LET macd_val == macd_line[Len(macd_line)]
                               signal_val == signal[Len(signal)]
                               hist == macd_val - signal_val
                               \* abs(hist) < 0.01
                               bias == IF 100 * Abs(hist) < EmaScale THEN "neutral"
                                       ELSE IF hist > 0 THEN "bull"
                                       ELSE "bear"
                           IN  MACDResult(Frac(macd_val, EmaScale), Frac(signal_val, EmaScale),
                                          Frac(hist, EmaScale), bias)

\* sum of max(0, closes[i] - closes[i-1]) for 1-based i in lo..hi
SumGains(cl, lo, hi) ==
    Loop(LAMBDA acc, i : acc + (IF cl[i] > cl[i - 1] THEN cl[i] - cl[i - 1] ELSE 0), 0, lo, hi)

\* sum of max(0, -(closes[i] - closes[i-1])) for 1-based i in lo..hi
SumLosses(cl, lo, hi) ==
    Loop(LAMBDA acc, i : acc + (IF cl[i] < cl[i - 1] THEN cl[i - 1] - cl[i] ELSE 0), 0, lo, hi)

RSIResult(value, bias) == [value |-> value, bias |-> bias]

NoRSI == RSIResult(NoneF, None)

\* compute_rsi with the relative strength upside down: avg_loss / avg_gain
compute_rsi_inverted(cl, period) ==
    IF Len(cl) < period + 1 THEN NoRSI
    ELSE LET n == Len(cl)
             gain == SumGains(cl, n - period + 1, n)
             loss == SumLosses(cl, n - period + 1, n)
             rsi == IF loss = 0 THEN Frac(100, 1) ELSE Frac(100 * loss, gain + loss)
             bias == IF FLe(Frac(70, 1), rsi) THEN "overbought"
                     ELSE IF FLe(Frac(55, 1), rsi) THEN "strong"
                     ELSE IF FLe(Frac(45, 1), rsi) THEN "neutral"
                     ELSE IF FLe(Frac(30, 1), rsi) THEN "weak"
                     ELSE "oversold"
         IN  RSIResult(rsi, bias)

compute_rsi(cl, period) ==
    IF Len(cl) < period + 1 THEN NoRSI
    ELSE LET n == Len(cl)
             \* sums of gains[-period:] and losses[-period:]; the averages divide both by period
             gain == SumGains(cl, n - period + 1, n)
             loss == SumLosses(cl, n - period + 1, n)
             \* 100 - 100 / (1 + avg_gain / avg_loss) = 100 * gain / (gain + loss)
             rsi == IF loss = 0 THEN Frac(100, 1) ELSE Frac(100 * gain, gain + loss)
             bias == IF FLe(Frac(70, 1), rsi) THEN "overbought"
                     ELSE IF FLe(Frac(55, 1), rsi) THEN "strong"
                     ELSE IF FLe(Frac(45, 1), rsi) THEN "neutral"
                     ELSE IF FLe(Frac(30, 1), rsi) THEN "weak"
                     ELSE "oversold"
         IN  RSIResult(rsi, bias)

\* compute_sma without its minimum-window guard
compute_sma_unguarded(cl, period) ==
    IF Len(cl) = 0 THEN NoneF
    ELSE Frac(SumSeq(LastN(cl, period)), period)

compute_sma(cl, period) ==
    IF Len(cl) < period THEN NoneF
    ELSE Frac(SumFrom(cl, Len(cl) - period + 1, Len(cl)), period)

TrendSummary(sma_value, delta_pct, bias) ==
    [sma_value |-> sma_value, delta_pct |-> delta_pct, bias |-> bias]

NoTrend == TrendSummary(NoneF, NoneF, None)

\* bias is "ZeroDivisionError" when the division by an SMA of 0 raises
compute_trend(cl, sma_period) ==
    LET sma == compute_sma(cl, sma_period)
    IN  IF IsNone(sma) \/ Len(cl) = 0 THEN NoTrend
        ELSE IF sma.n = 0 THEN TrendSummary(sma, NoneF, "ZeroDivisionError")
        ELSE LET last_price == cl[Len(cl)]
                 \* ((last_price - sma) / sma) * 100
                 delta_pct == Frac(100 * (last_price * sma.d - sma.n), sma.n)
                 bias == IF FLt(Frac(2, 1), delta_pct) THEN "up"
                         ELSE IF FLt(delta_pct, Frac(-2, 1)) THEN "down"
                         ELSE "sideways"
             IN  TrendSummary(sma, delta_pct, bias)

\* fixed-point scale of the daily percentage returns (0.01 percentage points)
ReturnScale == 100

\* the returns list, in units of 1/ReturnScale percent, for 0-based i in 1..len-1
DailyReturns(cl) ==
    Loop(LAMBDA returns, i :
             IF At(cl, i - 1) # 0
                 THEN Append(returns,
                             TruncDiv((At(cl, i) - At(cl, i - 1)) * 100 * ReturnScale,
                                      At(cl, i - 1)))
                 ELSE returns,
         << >>, 1, Len(cl) - 1)

\* sum of (x - m)^2 over the list
SumSqDev(xs, m) == Loop(LAMBDA acc, i : acc + (xs[i] - m) * (xs[i] - m), 0, 1, Len(xs))

VolatilitySummary(sigma_sq, bias) == [sigma_sq |-> sigma_sq, bias |-> bias]

NoVolatility == VolatilitySummary(NoneF, None)

\* statistics.stdev is the sample deviation; the summary keeps its square
\* (the variance), the biases compare it with 1.0^2 and 3.0^2
compute_volatility(cl) ==
    IF Len(cl) < 2 THEN NoVolatility
    ELSE LET returns == DailyReturns(cl)
             k == Len(returns)
         IN  IF k < 2 THEN NoVolatility
             ELSE LET mean == TruncDiv(SumSeq(returns), k)
                      ss == SumSqDev(returns, mean)
                      variance == Frac(ss, (k - 1) * ReturnScale * ReturnScale)
                      bias == IF FLt(variance, Frac(1, 1)) THEN "calm"
                              ELSE IF FLt(variance, Frac(9, 1)) THEN "choppy"
                              ELSE "wild"
                  IN  VolatilitySummary(variance, bias)

\* compute_distance_from_high that takes `period` closes for enough
compute_distance_from_high_period_window(cl, period) ==
    IF Len(cl) < period THEN NoneF
    ELSE LET recent_high == MaxSeq(LastN(cl, period))
             current_price == cl[Len(cl)]
         IN  IF recent_high = 0 THEN NoneF
             ELSE Frac((current_price - recent_high) * 100, recent_high)

compute_distance_from_high(cl, period) ==
    IF Len(cl) < period + 1 THEN NoneF
    ELSE LET recent_high == MaxSeq(LastN(cl, period))
             current_price == cl[Len(cl)]
         IN  IF recent_high = 0 THEN NoneF
             ELSE Frac((current_price - recent_high) * 100, recent_high)

\* the loop body that stays in the dip until the price is above SMA(10) too
RecoveryStep_waits_for_momentum(period_closes, st, i) ==
    LET sum50 == SumFrom(period_closes, i - 48, i + 1)
        sum10 == SumFrom(period_closes, i - 8, i + 1)
        current_price == At(period_closes, i)
    IN  IF 50 * current_price < sum50 /\ ~st.in_dip
            THEN [st EXCEPT !.in_dip = TRUE]
        ELSE IF 50 * current_price > sum50 /\ st.in_dip
            THEN IF 10 * current_price > sum10
                     THEN [recovery_count |-> st.recovery_count + 1, in_dip |-> FALSE]
                     ELSE st
        ELSE st

\* the loop body that stays in the dip after a recovery
RecoveryStep_stays_in_dip(period_closes, st, i) ==
    LET \* window = period_closes[:i+1]; sma50 and sma10 are sum / 50 and sum / 10
        sum50 == SumFrom(period_closes, i - 48, i + 1)
        sum10 == SumFrom(period_closes, i - 8, i + 1)
        current_price == At(period_closes, i)
    IN  IF 50 * current_price < sum50 /\ ~st.in_dip
            THEN [st EXCEPT !.in_dip = TRUE]
        ELSE IF 50 * current_price > sum50 /\ st.in_dip
            THEN [recovery_count |-> IF 10 * current_price > sum10
                                         THEN st.recovery_count + 1
                                         ELSE st.recovery_count,
                  in_dip |-> st.in_dip]
        ELSE st

\* one iteration of the loop of count_recovery_patterns at 0-based index i;
\* st is the loop state [recovery_count, in_dip]
RecoveryStep(period_closes, st, i) ==
    LET \* window = period_closes[:i+1]; sma50 and sma10 are sum / 50 and sum / 10
        sum50 == SumFrom(period_closes, i - 48, i + 1)
        sum10 == SumFrom(period_closes, i - 8, i + 1)
        current_price == At(period_closes, i)
    IN  IF 50 * current_price < sum50 /\ ~st.in_dip
            THEN [st EXCEPT !.in_dip = TRUE]
        ELSE IF 50 * current_price > sum50 /\ st.in_dip
            THEN [recovery_count |-> IF 10 * current_price > sum10
                                         THEN st.recovery_count + 1
                                         ELSE st.recovery_count,
                  in_dip |-> FALSE]
        ELSE st

count_recovery_patterns(cl, lookback_days) ==
    IF Len(cl) < 50 THEN 0
    ELSE LET period_closes == LastN(cl, lookback_days)
         IN  IF Len(period_closes) < 50 THEN 0
             ELSE Loop(LAMBDA st, i : RecoveryStep(period_closes, st, i),
                       [recovery_count |-> 0, in_dip |-> FALSE],
                       50, Len(period_closes) - 1).recovery_count

compute_long_term_trend(cl, period) == compute_trend(cl, period).bias

-----------------------------------------------------------------------------
(* indicators.py: growth indicators used by the Investment calculator      *)

compute_growth_rate(cl, period_days) ==
    IF Len(cl) < period_days THEN NoneF
    ELSE LET start_price == At(cl, Len(cl) - period_days)
             end_price == cl[Len(cl)]
         IN  IF start_price <= 0 THEN NoneF
             ELSE Frac((end_price - start_price) * 100, start_price)

FMax(x, y) == IF FLt(x, y) THEN y ELSE x

\* one iteration of the loop of compute_rally_magnitude at 0-based index i
RallyStep(lookback, max_rally_pct, i) ==
    IF i < Len(lookback) - 1
        THEN LET trough == At(lookback, i)
                 peak == MaxFrom(lookback, i + 2, Len(lookback))
                 rally_pct == IF trough > 0 THEN Frac((peak - trough) * 100, trough)
                              ELSE Frac(0, 1)
             IN  FMax(max_rally_pct, rally_pct)
        ELSE max_rally_pct

compute_rally_magnitude(cl, lookback_days) ==
    LET days == IF Len(cl) < lookback_days THEN Len(cl) ELSE lookback_days
    IN  IF days < 10 THEN NoneF
        ELSE LET lookback == LastN(cl, days)
             IN  Loop(LAMBDA m, i : RallyStep(lookback, m, i), Frac(0, 1), 0, Len(lookback) - 1)

compute_return_to_highs_frequency(cl, lookback_days) ==
    LET days == IF Len(cl) < lookback_days THEN Len(cl) ELSE lookback_days
    IN  IF days < 20 THEN NoneF
        ELSE LET lookback == LastN(cl, days)
                 \* current >= rolling_high * 0.90 over lookback[max(0, i-20):i+1]
                 near(i) == 100 * At(lookback, i) >= 90 * MaxFrom(lookback, i - 19, i + 1)
                 days_near_high == Cardinality({i \in 20..(Len(lookback) - 1) : near(i)})
                 total_days == Len(lookback) - 20
             IN  IF total_days > 0 THEN Frac(days_near_high * 100, total_days)
                 ELSE Frac(0, 1)

\* sum(x[i] * y[i] for i in range(n)) with x = list(range(n))
SumXY(y, n) == Loop(LAMBDA acc, i : acc + i * At(y, i), 0, 0, n - 1)

RECURSIVE Gcd(_, _)
Gcd(a, b) == IF b = 0 THEN a ELSE Gcd(b, a % b)

CeilDiv(a, b) == IF a >= 0 THEN (a + b - 1) \div b ELSE -((-a) \div b)

\* The regression of compute_trend_slope.  The annualized slope
\*   (slope * 252 / avg_price) * 100,  slope = a / denominator,
\* is kept unevaluated as the numerator a = n*sum_xy - sum_x*sum_y with
\* sum_y and n; present is FALSE for the None results.
compute_trend_slope(cl, period) ==
    LET n == IF Len(cl) < period THEN Len(cl) ELSE period
    IN  IF n < 20 THEN [present |-> FALSE, a |-> 0, sum_y |-> 0, n |-> n]
        ELSE LET y == LastN(cl, n)
                 sum_x == (n * (n - 1)) \div 2
                 sum_y == SumSeq(y)
                 sum_xy == SumXY(y, n)
             IN  \* denominator = n*sum_x_sq - sum_x^2 = n^2 (n^2 - 1) / 12 > 0 for n >= 20
                 IF sum_y = 0 THEN [present |-> FALSE, a |-> 0, sum_y |-> 0, n |-> n]
                 ELSE [present |-> TRUE, a |-> n * sum_xy - sum_x * sum_y,
                       sum_y |-> sum_y, n |-> n]

\* trend_slope >= t for a present slope and t > 0:
\*   25200 * n * a / (denominator * sum_y) >= t, denominator = n^2 (n^2 - 1) / 12
\*   <=>  (50400 / t) * a >= (n (n^2 - 1) / 6) * sum_y      (sum_y > 0)
\* decided in lowest terms so that no product leaves the integer range
SlopeAtLeast(sl, t) ==
    LET p == 50400 \div t
        k == (sl.n * (sl.n * sl.n - 1)) \div 6
        g == Gcd(p, k)
    IN  sl.a >= CeilDiv((k \div g) * sl.sum_y, p \div g)

-----------------------------------------------------------------------------
(* scoring.py: ScoreResult and normalisation                               *)

\* normalize_score dividing by max_points instead of max_points * 2
normalize_score_unhalved(raw_score, max_points) ==
    RoundDiv((raw_score + max_points) * 100, max_points)

\* normalize_score without the shift by max_points
normalize_score_unshifted(raw_score, max_points) ==
    RoundDiv(raw_score * 100, max_points)

normalize_score(raw_score, max_points) ==
    \* int(round(((raw + max) / (max * 2)) * 100))
    RoundDiv((raw_score + max_points) * 100, max_points * 2)

ScoreResult(turnaround_raw, turnaround_score, bau_raw, bau_score, turnaround_active) ==
    [turnaround_raw |-> turnaround_raw, turnaround_score |-> turnaround_score,
     bau_raw |-> bau_raw, bau_score |-> bau_score,
     turnaround_active |-> turnaround_active]

\* display_score that shows the turnaround variant whatever the flag says
display_score_turnaround(r) == r.turnaround_score

display_score(r) == IF r.turnaround_active THEN r.turnaround_score ELSE r.bau_score

display_raw(r) == IF r.turnaround_active THEN r.turnaround_raw ELSE r.bau_raw
-----------------------------------------------------------------------------
(* scoring.py: the two calculators.  a is the record of the keyword       *)
(* arguments, cl the closes argument.                                      *)

\* lines 620-652: the base score before the pattern bonuses
TradeBase(a) ==
    LET rsi == score_rsi_contextual(a.rsi_value, a.rsi_bias, a.long_term_trend,
                                    TRADE_RSI_WEIGHT)
        sma10_score == IF Truthy(a.sma10)
                           THEN score_sma_position(a.current_price, a.sma10, TRADE_SMA10_WEIGHT)
                           ELSE 0
        recovery == IF detect_recovery_pattern(a.current_price, a.sma10, a.sma50,
                                               a.trend10_bias, a.trend50_bias)
                        THEN IF a.resilience_count >= RESILIENCE_HIGH
                                 THEN TimesMultiplierHigh(TRADE_RECOVERY_BONUS)
                             ELSE IF a.resilience_count = 0
                                 THEN TimesMultiplierLow(TRADE_RECOVERY_BONUS)
                             ELSE TRADE_RECOVERY_BONUS
                        ELSE 0
    IN  score_macd(a.macd_bias, TRADE_MACD_WEIGHT)
        + rsi[1] + rsi[2]
        + sma10_score
        + score_trend(a.trend10_bias, TRADE_TREND10_WEIGHT)
        + score_volatility_resilient(a.volatility_bias, a.resilience_count,
                                     TRADE_VOLATILITY_WEIGHT, "trade")
        + recovery

CapitulationDetected(a, cl) ==
    detect_proven_winner_capitulation(a.current_price, cl, a.sma100, a.rsi_value,
                                      a.distance_from_high).value

PostShockDetected(a, cl) ==
    detect_post_shock_recovery(a.current_price, a.distance_from_high, a.rsi_value,
                               a.macd_hist, a.long_term_trend, cl, a.sma100)

CheapWinnerDetected(a) ==
    detect_cheap_on_winner(a.current_price, a.sma20, a.sma100, a.long_term_trend,
                           a.rsi_value)

\* calculate_trade_score whose BAU variant also takes the capitulation bonus
calculate_trade_score_bau_capitulation(a, cl) ==
    LET score == TradeBase(a)
        capitulation_detected == CapitulationDetected(a, cl)
        post_shock_detected == PostShockDetected(a, cl)
        cheap_winner_detected == CheapWinnerDetected(a)
        turnaround_score ==
            score
            + (IF capitulation_detected
                   THEN IF a.resilience_count >= RESILIENCE_HIGH
                            THEN TimesMultiplierHigh(TRADE_CAPITULATION_BONUS)
                            ELSE TRADE_CAPITULATION_BONUS
               ELSE IF post_shock_detected
                   THEN IF a.resilience_count >= RESILIENCE_HIGH
                            THEN TimesMultiplierHigh(TRADE_POST_SHOCK_BONUS)
                            ELSE TRADE_POST_SHOCK_BONUS
               ELSE 0)
            + (IF cheap_winner_detected THEN TRADE_CHEAP_WINNER_BONUS ELSE 0)
        bau_score == turnaround_score
        turnaround_active ==
            capitulation_detected /\ (~IsNone(a.sma50) /\ FLt(a.current_price, a.sma50))
    IN  ScoreResult(turnaround_score, normalize_score(turnaround_score, TRADE_MAX_POINTS),
                    bau_score, normalize_score(bau_score, TRADE_MAX_POINTS),
                    turnaround_active)

calculate_trade_score(a, cl) ==
    LET score == TradeBase(a)
        capitulation_detected == CapitulationDetected(a, cl)
        post_shock_detected == PostShockDetected(a, cl)
        cheap_winner_detected == CheapWinnerDetected(a)
        \* TURNAROUND score: capitulation bonus if detected, else post-shock bonus
        turnaround_score ==
            score
            + (IF capitulation_detected
                   THEN IF a.resilience_count >= RESILIENCE_HIGH
                            THEN TimesMultiplierHigh(TRADE_CAPITULATION_BONUS)
                            ELSE TRADE_CAPITULATION_BONUS
               ELSE IF post_shock_detected
                   THEN IF a.resilience_count >= RESILIENCE_HIGH
                            THEN TimesMultiplierHigh(TRADE_POST_SHOCK_BONUS)
                            ELSE TRADE_POST_SHOCK_BONUS
               ELSE 0)
            + (IF cheap_winner_detected THEN TRADE_CHEAP_WINNER_BONUS ELSE 0)
        \* BAU score: post-shock bonus, not capitulation
        bau_score ==
            score
            + (IF post_shock_detected
                   THEN IF a.resilience_count >= RESILIENCE_HIGH
                            THEN TimesMultiplierHigh(TRADE_POST_SHOCK_BONUS)
                            ELSE TRADE_POST_SHOCK_BONUS
               ELSE 0)
            + (IF cheap_winner_detected THEN TRADE_CHEAP_WINNER_BONUS ELSE 0)
        \* capitulation_detected and (sma50 is not None and current_price < sma50)
        turnaround_active ==
            capitulation_detected /\ (~IsNone(a.sma50) /\ FLt(a.current_price, a.sma50))
    IN  ScoreResult(turnaround_score, normalize_score(turnaround_score, TRADE_MAX_POINTS),
                    bau_score, normalize_score(bau_score, TRADE_MAX_POINTS),
                    turnaround_active)

\* lines 759-793: the base score (long-term trend, resilience, growth rate)
InvestmentBaseScore(a, cl) ==
    LET trend_pts == IF a.long_term_trend = "up" THEN 25
                     ELSE IF a.long_term_trend = "down" THEN -25
                     ELSE 0
        resilience_pts == IF a.resilience_count >= 5 THEN 35
                          ELSE IF a.resilience_count >= 3 THEN 25
                          ELSE IF a.resilience_count >= 1 THEN 15
                          ELSE 0
        growth_rate == compute_growth_rate(cl, 252)
        growth_pts == IF Len(cl) >= 252 /\ ~IsNone(growth_rate)
                          THEN IF FLe(Frac(100, 1), growth_rate) THEN 30
                               ELSE IF FLe(Frac(50, 1), growth_rate) THEN 20
                               ELSE IF FLe(Frac(20, 1), growth_rate) THEN 10
                               ELSE IF FLt(Frac(0, 1), growth_rate) THEN 5
                               ELSE -15
                          ELSE 0
    IN  trend_pts + resilience_pts + growth_pts

\* lines 795-844: the growth-quality bonuses
GrowthQualityBonuses(a, cl) ==
    LET rally_magnitude == compute_rally_magnitude(cl, 90)
        rally_pts == IF Len(cl) > 0 /\ ~IsNone(rally_magnitude)
                         THEN IF FLe(Frac(100, 1), rally_magnitude) THEN 50
                              ELSE IF FLe(Frac(50, 1), rally_magnitude) THEN 30
                              ELSE IF FLe(Frac(30, 1), rally_magnitude) THEN 15
                              ELSE 0
                         ELSE 0
        return_to_highs == compute_return_to_highs_frequency(cl, 180)
        highs_pts == IF Len(cl) > 0 /\ ~IsNone(return_to_highs)
                         THEN IF FLe(Frac(50, 1), return_to_highs) THEN 40
                              ELSE IF FLe(Frac(30, 1), return_to_highs) THEN 20
                              ELSE 0
                         ELSE 0
        trend_slope == compute_trend_slope(cl, 100)
        slope_pts == IF Len(cl) > 0 /\ trend_slope.present
                         THEN IF SlopeAtLeast(trend_slope, 100) THEN 30
                              ELSE IF SlopeAtLeast(trend_slope, 50) THEN 20
                              ELSE IF SlopeAtLeast(trend_slope, 20) THEN 10
                              ELSE 0
                         ELSE 0
        combo_pts == IF a.volatility_bias = "wild" /\ a.resilience_count >= 3 THEN 25 ELSE 0
        premium_pts == IF /\ Len(cl) > 0 /\ ~IsNone(return_to_highs)
                          /\ FLe(Frac(80, 1), return_to_highs)
                          /\ a.resilience_count >= 3
                           THEN 40 ELSE 0
    IN  rally_pts + highs_pts + slope_pts + combo_pts + premium_pts

\* lines 759-844: base score and growth-quality bonuses
InvestmentBase(a, cl) == InvestmentBaseScore(a, cl) + GrowthQualityBonuses(a, cl)

\* calculate_investment_score whose turnaround flag forgets the SMA(50) test
calculate_investment_score_no_sma50(a, cl) ==
    LET score == InvestmentBase(a, cl)
        capitulation_detected == CapitulationDetected(a, cl)
        post_shock_detected == PostShockDetected(a, cl)
        cheap_winner_detected == CheapWinnerDetected(a)
        turnaround_score ==
            score
            + (IF capitulation_detected
                   THEN IF a.resilience_count >= RESILIENCE_HIGH
                            THEN TimesMultiplierHigh(INV_CAPITULATION_BONUS)
                            ELSE INV_CAPITULATION_BONUS
               ELSE IF post_shock_detected
                   THEN IF a.resilience_count >= RESILIENCE_HIGH
                            THEN TimesMultiplierHigh(INV_POST_SHOCK_BONUS)
                            ELSE INV_POST_SHOCK_BONUS
               ELSE 0)
            + (IF cheap_winner_detected THEN INV_CHEAP_WINNER_BONUS ELSE 0)
        bau_score ==
            score
            + (IF post_shock_detected
                   THEN IF a.resilience_count >= RESILIENCE_HIGH
                            THEN TimesMultiplierHigh(INV_POST_SHOCK_BONUS)
                            ELSE INV_POST_SHOCK_BONUS
               ELSE 0)
            + (IF cheap_winner_detected THEN INV_CHEAP_WINNER_BONUS ELSE 0)
        turnaround_active == capitulation_detected
    IN  ScoreResult(turnaround_score, normalize_score(turnaround_score, INV_MAX_POINTS),
                    bau_score, normalize_score(bau_score, INV_MAX_POINTS),
                    turnaround_active)

calculate_investment_score(a, cl) ==
    LET score == InvestmentBase(a, cl)
        capitulation_detected == CapitulationDetected(a, cl)
        post_shock_detected == PostShockDetected(a, cl)
        cheap_winner_detected == CheapWinnerDetected(a)
        \* TURNAROUND score: capitulation bonus if detected, else post-shock bonus
        turnaround_score ==
            score
            + (IF capitulation_detected
                   THEN IF a.resilience_count >= RESILIENCE_HIGH
                            THEN TimesMultiplierHigh(INV_CAPITULATION_BONUS)
                            ELSE INV_CAPITULATION_BONUS
               ELSE IF post_shock_detected
                   THEN IF a.resilience_count >= RESILIENCE_HIGH
                            THEN TimesMultiplierHigh(INV_POST_SHOCK_BONUS)
                            ELSE INV_POST_SHOCK_BONUS
               ELSE 0)
            + (IF cheap_winner_detected THEN INV_CHEAP_WINNER_BONUS ELSE 0)
        \* BAU score: post-shock bonus, not capitulation
        bau_score ==
            score
            + (IF post_shock_detected
                   THEN IF a.resilience_count >= RESILIENCE_HIGH
                            THEN TimesMultiplierHigh(INV_POST_SHOCK_BONUS)
                            ELSE INV_POST_SHOCK_BONUS
               ELSE 0)
            + (IF cheap_winner_detected THEN INV_CHEAP_WINNER_BONUS ELSE 0)
        \* capitulation_detected and (sma50 is not None and current_price < sma50)
        turnaround_active ==
            capitulation_detected /\ (~IsNone(a.sma50) /\ FLt(a.current_price, a.sma50))
    IN  ScoreResult(turnaround_score, normalize_score(turnaround_score, INV_MAX_POINTS),
                    bau_score, normalize_score(bau_score, INV_MAX_POINTS),
                    turnaround_active)
-----------------------------------------------------------------------------
(* The indicator pipeline of the callers (technical_panel.py): every       *)
(* indicator is computed from the same closes and handed to the            *)
(* calculators as keyword arguments.                                       *)

IndicatorArgs(cl) ==
    LET macd == compute_macd(cl)
        rsi == compute_rsi(cl, 14)
    IN  [current_price |-> Frac(cl[Len(cl)], 1),
         macd_bias |-> macd.bias,
         macd_hist |-> macd.hist,
         rsi_value |-> rsi.value,
         rsi_bias |-> rsi.bias,
         sma10 |-> compute_sma(cl, 10),
         sma20 |-> compute_sma(cl, 20),
         sma50 |-> compute_sma(cl, 50),
         sma100 |-> compute_sma(cl, 100),
         trend10_bias |-> compute_trend(cl, 10).bias,
         trend50_bias |-> compute_trend(cl, 50).bias,
         long_term_trend |-> compute_long_term_trend(cl, 100),
         volatility_bias |-> compute_volatility(cl).bias,
         distance_from_high |-> compute_distance_from_high(cl, 20),
         resilience_count |-> count_recovery_patterns(cl, 180)]

-----------------------------------------------------------------------------
(* scoring.py: rating label of a normalized score                          *)

get_rating_label(score) ==
    IF score >= 80 THEN "STRONG BUY"
    ELSE IF score >= 70 THEN "BUY"
    ELSE IF score >= 55 THEN "OUTPERFORM"
    ELSE IF score >= 45 THEN "HOLD"
    ELSE IF score >= 30 THEN "UNDERPERFORM"
    ELSE "SELL"

\* get_rating_color whose green starts at the STRONG BUY threshold
get_rating_color_strong_buy_green(score) ==
    IF score >= 80 THEN "#00ff00"
    ELSE IF score >= 55 THEN "#88ff88"
    ELSE IF score >= 45 THEN "#888888"
    ELSE IF score >= 30 THEN "#ff8888"
    ELSE "#ff0000"

get_rating_color(score) ==
    IF score >= 70 THEN "#00ff00"
    ELSE IF score >= 55 THEN "#88ff88"
    ELSE IF score >= 45 THEN "#888888"
    ELSE IF score >= 30 THEN "#ff8888"
    ELSE "#ff0000"

-----------------------------------------------------------------------------
(* Inputs of the scoring session.                                          *)
(*                                                                         *)
(* Price histories: every short series over two neighbouring prices, a     *)
(* family of rally-and-crash shapes (flat base, linear rally to a peak,    *)
(* linear crash, optional flat tail) and a family of square waves around   *)
(* a drifting level.                                                       *)

MaxShortLen == 5

ShortPrices == {20, 21}

ShortHistories == UNION {[1..n -> ShortPrices] : n \in 1..MaxShortLen}

Shape(flat, base, ramp, peak, crash, end, tail) ==
    [i \in 1..(flat + ramp + crash + tail) |->
        IF i <= flat THEN base
        ELSE IF i <= flat + ramp THEN base + ((peak - base) * (i - flat)) \div ramp
        ELSE IF i <= flat + ramp + crash
            THEN peak - ((peak - end) * (i - flat - ramp)) \div crash
        ELSE end]

ShapeHistories ==
    {Shape(70, 100, 30, peak, crash, end, tail) :
        peak \in {130, 150}, crash \in {6, 10}, end \in {95, 100, 112, 125},
        tail \in {0, 2}}

Wave(n, base, amp, half, drift) ==
    [i \in 1..n |->
        base + ((i - 1) * drift) \div 10
             + (IF ((i - 1) \div half) % 2 = 0 THEN amp ELSE -amp)]

WaveHistories ==
    {Wave(n, 100, amp, half, drift) :
        n \in {120, 260}, amp \in {6, 12}, half \in {8, 15}, drift \in {2, 5}}

PriceHistories == ShortHistories \cup ShapeHistories \cup WaveHistories

\* the histories handed to a calculator together with hand-picked indicators
CapitulationHistory == Shape(70, 100, 30, 150, 10, 100, 0)

MaxResilience == 3

Biases(values) == {None} \cup values

RsiInputs ==
    {<<NoneF, None>>, <<Frac(15, 1), "oversold">>, <<Frac(40, 1), "weak">>,
     <<Frac(50, 1), "neutral">>, <<Frac(80, 1), "overbought">>}

\* every base input of the Trade and Investment scores varies, no history
BaseInputs ==
    {[current_price |-> Frac(100, 1),
      macd_bias |-> macd, macd_hist |-> NoneF,
      rsi_value |-> rsi[1], rsi_bias |-> rsi[2],
      sma10 |-> sma10, sma20 |-> NoneF, sma50 |-> rec[1], sma100 |-> NoneF,
      trend10_bias |-> t10, trend50_bias |-> rec[2],
      long_term_trend |-> ltt, volatility_bias |-> vol,
      distance_from_high |-> NoneF, resilience_count |-> res] :
        macd \in Biases({"bull", "bear", "neutral"}),
        rsi \in RsiInputs,
        sma10 \in {NoneF, Frac(95, 1), Frac(105, 1)},
        rec \in {<<NoneF, None>>, <<Frac(105, 1), "up">>},
        t10 \in Biases({"up", "down"}),
        ltt \in Biases({"up", "down"}),
        vol \in Biases({"calm", "choppy", "wild"}),
        res \in 0..MaxResilience}

\* every input of the pattern detectors varies, on a long history
PatternInputs ==
    {[current_price |-> Frac(100, 1),
      macd_bias |-> momentum[1], macd_hist |-> NoneF,
      rsi_value |-> rsi[1], rsi_bias |-> rsi[2],
      sma10 |-> Frac(95, 1), sma20 |-> win[1], sma50 |-> sma50, sma100 |-> win[2],
      trend10_bias |-> momentum[2], trend50_bias |-> "up",
      long_term_trend |-> "up", volatility_bias |-> "wild",
      distance_from_high |-> dist, resilience_count |-> res] :
        momentum \in {<<"bull", "up">>, <<"bear", "down">>},
        rsi \in {<<NoneF, None>>, <<Frac(15, 1), "oversold">>, <<Frac(25, 1), "oversold">>},
        dist \in {NoneF, Frac(-20, 1), Frac(-35, 1)},
        win \in {<<NoneF, NoneF>>, <<NoneF, Frac(90, 1)>>, <<Frac(110, 1), Frac(90, 1)>>},
        sma50 \in {NoneF, Frac(95, 1), Frac(100, 1), Frac(120, 1)},
        res \in {0, MaxResilience}}

NoArgs == [current_price |-> NoneF]

Unset == [kind |-> "unset", value |-> None]

NoCall == [fn |-> "none"]

NoResult == ScoreResult(0, 0, 0, 0, FALSE)

NoSpan == [start_date |-> 0, end_date |-> 0, interval_days |-> 0]

NoDisplay == [trade_score |-> -1]

-----------------------------------------------------------------------------
(* The scoring session: indicators, the two calculators, the display       *)

SessionIdle ==
    /\ closes = << >>
    /\ args = NoArgs
    /\ trade = NoResult
    /\ inv = NoResult
    /\ shown = NoDisplay
    /\ phase = "idle"

\* no back-test is running
BacktestIdle ==
    /\ db = << >>
    /\ asof = 0
    /\ outcome = Unset
    /\ baseline = Unset
    /\ edits = 0
    /\ fwd = Unset
    /\ current_date = 0
    /\ results = << >>
    /\ span = NoSpan
    /\ pc = "idle"

\* no library function is being called directly
LibraryIdle ==
    /\ call = NoCall
    /\ ret = Unset

\* an Optional[Dict] that is None
NoStatus == [kind |-> "None"]

\* IcebergApp.__init__: the auto-refresh and market status state
AppConstructed ==
    /\ app = "constructed"
    /\ last_market_state = NoStatus
    /\ closing_refresh_done = FALSE
    /\ update_worker = 0
    /\ is_auto_refresh = FALSE
    /\ workers = << >>
    /\ triggers = << >>

\* ticks of the clock in one second
Second == 2

\* time.time() when the client is constructed
Epoch == 5 * Second

\* the UI thread and the thread of the price-update worker
Threads == {"ui", "worker"}

Outside == [pc |-> "outside", elapsed |-> 0, wake |-> 0]

\* FinnhubClient.__init__, no request being made
ClientConstructed ==
    /\ now = Epoch
    /\ last_request_time = 0
    /\ thread = [t \in Threads |-> Outside]
    /\ sent = << >>

UiIdle == AppConstructed /\ ClientConstructed

ScoreInit == SessionIdle /\ BacktestIdle /\ LibraryIdle /\ UiIdle

\* technical_panel.py / diagnose.py: the indicators are computed from the
\* price history and become the calculators' keyword arguments
ComputeIndicators ==
    /\ phase = "idle"
    /\ \E cl \in PriceHistories :
        /\ closes' = cl
        /\ args' = IndicatorArgs(cl)
    /\ phase' = "ready"
    /\ UNCHANGED <<trade, inv, shown>>
    /\ UNCHANGED btVars
    /\ UNCHANGED uiVars
    /\ UNCHANGED libVars

\* a caller that hands the calculators indicator values of its own
CallWithBaseInputs ==
    /\ phase = "idle"
    /\ \E a \in BaseInputs :
        /\ closes' = << >>
        /\ args' = a
    /\ phase' = "ready"
    /\ UNCHANGED <<trade, inv, shown>>
    /\ UNCHANGED btVars
    /\ UNCHANGED uiVars
    /\ UNCHANGED libVars

CallWithPatternInputs ==
    /\ phase = "idle"
    /\ \E a \in PatternInputs :
        /\ closes' = CapitulationHistory
        /\ args' = a
    /\ phase' = "ready"
    /\ UNCHANGED <<trade, inv, shown>>
    /\ UNCHANGED btVars
    /\ UNCHANGED uiVars
    /\ UNCHANGED libVars

CalculateScores ==
    /\ phase = "ready"
    /\ trade' = calculate_trade_score(args, closes)
    /\ inv' = calculate_investment_score(args, closes)
    /\ phase' = "scored"
    /\ UNCHANGED <<closes, args, shown>>
    /\ UNCHANGED btVars
    /\ UNCHANGED uiVars
    /\ UNCHANGED libVars

\* diagnose.py: the displayed score, raw score and label of each result
Displayed(r) ==
    IF r.turnaround_active
        THEN [score |-> r.turnaround_score, raw |-> r.turnaround_raw,
              label |-> get_rating_label(r.turnaround_score)]
        ELSE [score |-> display_score(r), raw |-> display_raw(r),
              label |-> get_rating_label(display_score(r))]

DisplayScores ==
    /\ phase = "scored"
    /\ shown' = [trade |-> Displayed(trade), inv |-> Displayed(inv)]
    /\ phase' = "shown"
    /\ UNCHANGED <<closes, args, trade, inv>>
    /\ UNCHANGED btVars
    /\ UNCHANGED uiVars
    /\ UNCHANGED libVars

Init == ScoreInit

Next ==
    \/ ComputeIndicators
    \/ CallWithBaseInputs
    \/ CallWithPatternInputs
    \/ CalculateScores
    \/ DisplayScores

Spec == Init /\ [][Next]_vars

-----------------------------------------------------------------------------
(* backtest.py: the price store and the three query functions.  Dates are  *)
(* day numbers; a store maps each day to its close, or to NoRow where      *)
(* prices_daily has no row for the ticker.                                 *)

NoRow == -1

lookback_days == 365

\* ORDER BY trade_date: the days of a set in ascending order
Ascending(days) ==
    IF days = {} THEN << >>
    ELSE LET first == CHOOSE d \in days : \A e \in days : d <= e
             last == CHOOSE d \in days : \A e \in days : e <= d
         IN  Loop(LAMBDA sorted, d : IF d \in days THEN Append(sorted, d) ELSE sorted,
                  << >>, first, last)

\* the parameters of calculate_trade_score / calculate_investment_score
\* that have no default value
RequiredArguments ==
    {"current_price", "macd_bias", "macd_hist", "rsi_value", "rsi_bias", "sma10", "sma20",
     "sma50", "sma100", "trend10_bias", "trend50_bias", "long_term_trend",
     "volatility_bias"}

\* the keyword arguments calculate_score_at_date passes to both calculators
BacktestArguments ==
    {"current_price", "macd_bias", "rsi_value", "rsi_bias", "sma10", "trend10_bias",
     "sma50", "trend50_bias", "volatility_bias"}

\* calculate_score_at_date whose query reads trade_date <= ? for trade_date < ?
calculate_score_at_date_inclusive(store, as_of_date) ==
    LET days == {d \in DOMAIN store : store[d] # NoRow /\ d <= as_of_date}
        \* ORDER BY trade_date DESC LIMIT lookback_days + 50, then reversed
        fetched == LastN(Ascending(days), lookback_days + 50)
        rows == [i \in 1..Len(fetched) |-> store[fetched[i]]]
    IN  IF Len(rows) < 50 THEN Returned(None)
        ELSE LET cl == IF Len(rows) > lookback_days THEN LastN(rows, lookback_days)
                       ELSE rows
                 trend10 == compute_trend(cl, 10)
                 trend50 == compute_trend(cl, 50)
             IN  IF "ZeroDivisionError" \in {trend10.bias, trend50.bias}
                     THEN Raised("ZeroDivisionError")
                 \* both calculator calls leave out required arguments
                 ELSE IF RequiredArguments \ BacktestArguments # {}
                     THEN Raised("TypeError")
                 \* and a ScoreResult does not unpack into a pair
                 ELSE Raised("TypeError")

calculate_score_at_date(store, as_of_date) ==
    LET days == {d \in DOMAIN store : store[d] # NoRow /\ d < as_of_date}
        \* ORDER BY trade_date DESC LIMIT lookback_days + 50, then reversed
        fetched == LastN(Ascending(days), lookback_days + 50)
        rows == [i \in 1..Len(fetched) |-> store[fetched[i]]]
    IN  IF Len(rows) < 50 THEN Returned(None)
        ELSE LET cl == IF Len(rows) > lookback_days THEN LastN(rows, lookback_days)
                       ELSE rows
                 trend10 == compute_trend(cl, 10)
                 trend50 == compute_trend(cl, 50)
             IN  IF "ZeroDivisionError" \in {trend10.bias, trend50.bias}
                     THEN Raised("ZeroDivisionError")
                 \* both calculator calls leave out required arguments
                 ELSE IF RequiredArguments \ BacktestArguments # {}
                     THEN Raised("TypeError")
                 \* and a ScoreResult does not unpack into a pair
                 ELSE Raised("TypeError")

\* get_price_at_date that takes the nearest row strictly before the target
get_price_at_date_before(store, target_date) ==
    LET days == {d \in DOMAIN store : store[d] # NoRow /\ d < target_date}
    IN  IF days = {} THEN NoneF
        ELSE Frac(store[CHOOSE d \in days : \A e \in days : e <= d], 1)

get_price_at_date(store, target_date) ==
    LET days == {d \in DOMAIN store : store[d] # NoRow /\ d <= target_date}
    IN  IF days = {} THEN NoneF
        ELSE Frac(store[CHOOSE d \in days : \A e \in days : e <= d], 1)

calculate_forward_return(store, from_date, from_price, days_forward) ==
    LET target_date == from_date + days_forward
        to_price == get_price_at_date(store, target_date)
    IN  IF IsNone(to_price) \/ from_price.n = 0 THEN NoneF
        \* (to_price - from_price) / from_price
        ELSE Frac((to_price.n * from_price.d - from_price.n * to_price.d) * from_price.d,
                  to_price.d * from_price.d * from_price.n)

-----------------------------------------------------------------------------
(* The back-test: stores, direct calls of the query functions, and the     *)
(* sampling loop of backtest_ticker.                                       *)

AsOf == 60

MaxDay == AsOf + 100

MaxEdits == 1

interval_days == 7

\* the date ranges and intervals backtest_ticker is called with
Spans ==
    {[start_date |-> AsOf - 7, end_date |-> e, interval_days |-> i] :
        e \in {AsOf - 8, AsOf + 7, AsOf + 9}, i \in {1, 5, interval_days}}

Horizons == {14, 30, 90}

\* n_hist consecutive rows at p_hist before AsOf, p_at on AsOf, then weekday
\* rows at 100 up to AsOf + last, at 110 from AsOf + jump on
MakeStore(n_hist, p_hist, p_at, last, jump) ==
    [d \in 0..MaxDay |->
        IF d < AsOf - n_hist THEN NoRow
        ELSE IF d < AsOf THEN p_hist
        ELSE IF d = AsOf THEN p_at
        ELSE IF d > AsOf + last \/ (d - AsOf) % 7 \in {5, 6} THEN NoRow
        ELSE IF d >= AsOf + jump THEN 110
        ELSE 100]

Stores ==
    {MakeStore(n_hist, p_hist, p_at, last, jump) :
        n_hist \in {48, 49, 50, 51}, p_hist \in {0, 100}, p_at \in {NoRow, 0, 100},
        last \in {0, 13, 14, 30, 89, 95}, jump \in {14, 30, MaxDay}}

BacktestInit ==
    /\ SessionIdle
    /\ LibraryIdle
    /\ UiIdle
    /\ db \in Stores
    /\ asof = AsOf
    /\ outcome = Unset
    /\ baseline = Unset
    /\ edits = 0
    /\ fwd = Unset
    /\ current_date = 0
    /\ results = << >>
    /\ span = NoSpan
    /\ pc = "idle"

\* calculate_score_at_date(ticker, asof, db)
CallScoreAtDate ==
    /\ pc = "idle" /\ fwd = Unset /\ outcome = Unset
    /\ outcome' = calculate_score_at_date(db, asof)
    /\ baseline' = IF baseline = Unset THEN outcome' ELSE baseline
    /\ UNCHANGED <<db, asof, edits, fwd, current_date, results, span, pc>>
    /\ UNCHANGED scoreVars
    /\ UNCHANGED libVars
    /\ UNCHANGED uiVars

\* a row on or after the as-of date is added, removed or changed
ModifyFuture ==
    /\ pc = "idle" /\ fwd = Unset /\ outcome # Unset
    /\ edits < MaxEdits
    /\ \E d \in {asof, asof + 14}, close \in {NoRow, 0, 110} :
        /\ db[d] # close
        /\ db' = [db EXCEPT ![d] = close]
    /\ edits' = edits + 1
    /\ outcome' = Unset
    /\ UNCHANGED <<asof, baseline, fwd, current_date, results, span, pc>>
    /\ UNCHANGED scoreVars
    /\ UNCHANGED libVars
    /\ UNCHANGED uiVars

\* calculate_forward_return(ticker, asof, price, h, db) with the price that
\* get_price_at_date finds for asof, as backtest_ticker calls it
CallForwardReturn ==
    /\ pc = "idle" /\ fwd = Unset /\ outcome = Unset /\ baseline = Unset
    /\ \E h \in Horizons :
        LET price == get_price_at_date(db, asof)
        IN  /\ ~IsNone(price)
            /\ fwd' = [kind |-> "called", horizon |-> h, from_price |-> price,
                       value |-> calculate_forward_return(db, asof, price, h)]
    /\ UNCHANGED <<db, asof, outcome, baseline, edits, current_date, results, span, pc>>
    /\ UNCHANGED scoreVars
    /\ UNCHANGED libVars
    /\ UNCHANGED uiVars

BacktestResult(date, price, trade_score, investment_score, return_2w, return_1m, return_3m) ==
    [date |-> date, price |-> price,
     trade_score |-> trade_score, investment_score |-> investment_score,
     trade_rating |-> get_rating_label(trade_score),
     investment_rating |-> get_rating_label(investment_score),
     return_2w |-> return_2w, return_1m |-> return_1m, return_3m |-> return_3m]

\* backtest_ticker(ticker, db, start_date, end_date): entry
StartBacktest ==
    /\ pc = "idle" /\ fwd = Unset /\ outcome = Unset /\ baseline = Unset
    /\ \E sp \in Spans :
        /\ span' = sp
        /\ current_date' = sp.start_date
    /\ results' = << >>
    /\ pc' = "loop"
    /\ UNCHANGED <<db, asof, outcome, baseline, edits, fwd>>
    /\ UNCHANGED scoreVars
    /\ UNCHANGED libVars
    /\ UNCHANGED uiVars

\* one iteration of the while loop; an exception of calculate_score_at_date
\* leaves backtest_ticker
BacktestSample ==
    /\ pc = "loop"
    /\ current_date <= span.end_date
    /\ LET scores == calculate_score_at_date(db, current_date)
           price == get_price_at_date(db, current_date)
       IN  IF scores.kind = "raised"
               THEN /\ pc' = scores.value
                    /\ UNCHANGED <<current_date, results>>
           ELSE /\ results' =
                       IF scores.value # None /\ Truthy(price)
                           THEN Append(results,
                                    BacktestResult(current_date, price,
                                        scores.value[1], scores.value[2],
                                        calculate_forward_return(db, current_date, price, 14),
                                        calculate_forward_return(db, current_date, price, 30),
                                        calculate_forward_return(db, current_date, price, 90)))
                       ELSE results
                /\ current_date' = current_date + span.interval_days
                /\ pc' = pc
    /\ UNCHANGED <<db, asof, outcome, baseline, edits, fwd, span>>
    /\ UNCHANGED scoreVars
    /\ UNCHANGED libVars
    /\ UNCHANGED uiVars

ReturnResults ==
    /\ pc = "loop"
    /\ current_date > span.end_date
    /\ pc' = "returned"
    /\ UNCHANGED <<db, asof, outcome, baseline, edits, fwd, current_date, results, span>>
    /\ UNCHANGED scoreVars
    /\ UNCHANGED libVars
    /\ UNCHANGED uiVars

BacktestNext ==
    \/ CallScoreAtDate
    \/ ModifyFuture
    \/ CallForwardReturn
    \/ StartBacktest
    \/ BacktestSample
    \/ ReturnResults

BacktestSpec == BacktestInit /\ [][BacktestNext]_vars

-----------------------------------------------------------------------------
(* backtest.py: evaluate_accuracy.  The statistics are exact fractions.    *)

AccuracyStats(rating, count, positive_rate_2w, avg_return_2w, positive_rate_1m, avg_return_1m, positive_rate_3m, avg_return_3m) ==
    [rating |-> rating, count |-> count,
     positive_rate_2w |-> positive_rate_2w, avg_return_2w |-> avg_return_2w,
     positive_rate_1m |-> positive_rate_1m, avg_return_1m |-> avg_return_1m,
     positive_rate_3m |-> positive_rate_3m, avg_return_3m |-> avg_return_3m]

\* [r.<horizon> for r in results_list if r.<horizon> is not None]
ReturnsOf(results_list, horizon) ==
    LET all == [i \in 1..Len(results_list) |-> results_list[i][horizon]]
    IN  SelectSeq(all, LAMBDA r : ~IsNone(r))

\* sum(returns) of a list of fractions
FSum(returns) ==
    Loop(LAMBDA acc, i : Frac(acc.n * returns[i].d + returns[i].n * acc.d, acc.d * returns[i].d),
         Frac(0, 1), 1, Len(returns))

\* the positive rate that also counts the returns of exactly 0
PositiveRate_nonnegative(returns) ==
    IF Len(returns) > 0
        THEN Frac(Cardinality({i \in 1..Len(returns) : returns[i].n >= 0}), Len(returns))
        ELSE Frac(0, 1)

\* sum(1 for r in returns if r > 0) / len(returns) if returns else 0
PositiveRate(returns) ==
    IF Len(returns) > 0
        THEN Frac(Cardinality({i \in 1..Len(returns) : returns[i].n > 0}), Len(returns))
        ELSE Frac(0, 1)

\* sum(returns) / len(returns) if returns else 0
AvgReturn(returns) ==
    IF Len(returns) > 0
        THEN LET total == FSum(returns) IN Frac(total.n, total.d * Len(returns))
        ELSE Frac(0, 1)

\* the stats dict: rating -> AccuracyStats, for the ratings that occur
evaluate_accuracy(rs, score_type) ==
    LET RatingOf(r) == IF score_type = "trade" THEN r.trade_rating ELSE r.investment_rating
        by_rating == [rating \in {RatingOf(rs[i]) : i \in 1..Len(rs)} |->
                          SelectSeq(rs, LAMBDA r : RatingOf(r) = rating)]
    IN  [rating \in DOMAIN by_rating |->
            LET results_list == by_rating[rating]
                returns_2w == ReturnsOf(results_list, "return_2w")
                returns_1m == ReturnsOf(results_list, "return_1m")
                returns_3m == ReturnsOf(results_list, "return_3m")
            IN  AccuracyStats(rating, Len(results_list),
                              PositiveRate(returns_2w), AvgReturn(returns_2w),
                              PositiveRate(returns_1m), AvgReturn(returns_1m),
                              PositiveRate(returns_3m), AvgReturn(returns_3m))]

-----------------------------------------------------------------------------
(* Direct calls of the library functions.  `call` holds the function name  *)
(* and the arguments, `ret` what the call returned or raised.              *)

MaxResults == 3

\* (trade_score, investment_score) of a back-test sample
SampleScores == {<<85, 85>>, <<85, 50>>, <<50, 20>>}

\* (return_2w, return_1m, return_3m) of a back-test sample, in percent
SampleReturns ==
    {<<NoneF, NoneF, NoneF>>,
     <<Frac(-5, 1), Frac(5, 2), NoneF>>,
     <<Frac(5, 2), Frac(0, 1), Frac(-7, 3)>>,
     <<Frac(0, 1), Frac(4, 1), Frac(5, 2)>>}

Samples ==
    {BacktestResult(AsOf, Frac(100, 1), s[1], s[2], r[1], r[2], r[3]) :
        s \in SampleScores, r \in SampleReturns}

ResultLists == UNION {[1..n -> Samples] : n \in 0..MaxResults}

LibraryInit == ScoreInit

\* evaluate_accuracy(results, score_type)
CallEvaluateAccuracy ==
    /\ call = NoCall
    /\ \E rs \in ResultLists, score_type \in {"trade", "investment"} :
        /\ call' = [fn |-> "evaluate_accuracy", results |-> rs, score_type |-> score_type]
        /\ ret' = Returned(evaluate_accuracy(rs, score_type))
    /\ UNCHANGED scoreVars
    /\ UNCHANGED btVars
    /\ UNCHANGED uiVars

\* an arithmetic progression of n closes
Ramp(n, start, step) == [i \in 1..n |-> start + (i - 1) * step]

\* lengths on both sides of every minimum window of the indicators
WindowLens == {0, 1, 2, 8, 9, 10, 11, 12, 13, 14, 15, 16, 19, 20, 21, 25, 26, 27, 251, 252, 253}

\* rising, falling and flat series of positive closes
WindowSeries ==
    {Ramp(n, 100, 1) : n \in WindowLens} \cup {Ramp(n, 300, -1) : n \in WindowLens}
        \cup {Ramp(n, 7, 0) : n \in WindowLens}

\* 10 closes of 0, a rally to 150 in 50 days, a crash to `end` in 30 days
ZeroStartRally(end) == Shape(10, 0, 50, 150, 30, end, 0)

\* series with closes of 0: all of them, one of them, or the last 21
ZeroSeries ==
    {Ramp(n, 0, 0) : n \in {2, 10, 21, 90, 252}}
        \cup {[Ramp(n, 100, 1) EXCEPT ![k] = 0] : n \in {21, 252}, k \in {1, 2, 20, 21}}
        \cup {Ramp(10, 100, 1) \o Ramp(21, 0, 0), Ramp(21, 0, 0) \o Ramp(10, 100, 1)}
        \cup {ZeroStartRally(end) : end \in {0, 5}}

IndicatorSeries == WindowSeries \cup ZeroSeries

\* n closes from `start` in direction dir (1 or -1), the i-th move being
\* about a + b * i: a straight line for b = 0, a flattening curve for b < 0
Curve(n, start, dir, a, b) ==
    [i \in 1..n |-> start + dir * (a * (i - 1) + (b * (i - 1) * (i - 1)) \div 2)]

\* strictly rising and strictly falling series of 30 closes: straight lines,
\* flattening and steepening curves, and a jump followed by a slow drift
TrendSeries ==
    {Curve(30, IF dir = 1 THEN 100 + base ELSE 700 - base, dir, c[1], c[2]) :
        base \in {0, 100}, dir \in {1, -1},
        c \in {<<1, 0>>, <<2, 0>>, <<3, 0>>, <<30, -1>>, <<25, -1>>, <<1, 1>>}}
        \cup {<<1>> \o Ramp(29, 700, 1), <<800>> \o Ramp(29, 100, -1)}

MacdSeries == IndicatorSeries \cup TrendSeries

\* n closes that move by `step` in direction dir (1 or -1) every day, except
\* on the days lo..hi after the first, where the close repeats
Monotone(n, start, dir, step, lo, hi) ==
    [i \in 1..n |->
        LET top == IF i - 1 < hi THEN i - 1 ELSE hi
            repeats == IF top >= lo THEN top - lo + 1 ELSE 0
        IN  start + dir * step * ((i - 1) - repeats)]

\* rising and falling series of 15 to 20 closes with at most one flat stretch
MonotoneSeries ==
    {Monotone(n, 150, dir, step, flat[1], flat[2]) :
        n \in {15, 16, 20}, dir \in {1, -1}, step \in {1, 3},
        flat \in {<<1, 0>>} \cup {f \in (1..19) \X (1..19) : f[1] <= f[2]}}

RsiSeries == IndicatorSeries \cup MonotoneSeries

\* compute_ema(values, period) on a price list
CallComputeEma ==
    /\ call = NoCall
    /\ \E cl \in IndicatorSeries, period \in {9, 12, 26} :
        /\ call' = [fn |-> "compute_ema", closes |-> cl, period |-> period]
        /\ ret' = Returned(compute_ema([i \in 1..Len(cl) |-> cl[i] * EmaScale], period))
    /\ UNCHANGED scoreVars
    /\ UNCHANGED btVars
    /\ UNCHANGED uiVars

\* compute_macd(closes)
CallComputeMacd ==
    /\ call = NoCall
    /\ \E cl \in MacdSeries :
        /\ call' = [fn |-> "compute_macd", closes |-> cl, period |-> 26]
        /\ ret' = Returned(compute_macd(cl))
    /\ UNCHANGED scoreVars
    /\ UNCHANGED btVars
    /\ UNCHANGED uiVars

\* compute_rsi(closes, period)
CallComputeRsi ==
    /\ call = NoCall
    /\ \E cl \in RsiSeries, period \in {9, 14} :
        /\ call' = [fn |-> "compute_rsi", closes |-> cl, period |-> period]
        /\ ret' = Returned(compute_rsi(cl, period))
    /\ UNCHANGED scoreVars
    /\ UNCHANGED btVars
    /\ UNCHANGED uiVars

\* compute_sma(closes, period)
CallComputeSma ==
    /\ call = NoCall
    /\ \E cl \in IndicatorSeries, period \in {10, 20} :
        /\ call' = [fn |-> "compute_sma", closes |-> cl, period |-> period]
        /\ ret' = Returned(compute_sma(cl, period))
    /\ UNCHANGED scoreVars
    /\ UNCHANGED btVars
    /\ UNCHANGED uiVars

\* compute_trend(closes, sma_period)
CallComputeTrend ==
    /\ call = NoCall
    /\ \E cl \in IndicatorSeries, period \in {10, 20} :
        /\ call' = [fn |-> "compute_trend", closes |-> cl, period |-> period]
        /\ ret' = LET trend == compute_trend(cl, period)
                  IN  IF trend.bias = "ZeroDivisionError"
                          THEN Raised("ZeroDivisionError")
                          ELSE Returned(trend)
    /\ UNCHANGED scoreVars
    /\ UNCHANGED btVars
    /\ UNCHANGED uiVars

\* compute_volatility(closes)
CallComputeVolatility ==
    /\ call = NoCall
    /\ \E cl \in IndicatorSeries :
        /\ call' = [fn |-> "compute_volatility", closes |-> cl, period |-> 0]
        /\ ret' = Returned(compute_volatility(cl))
    /\ UNCHANGED scoreVars
    /\ UNCHANGED btVars
    /\ UNCHANGED uiVars

\* compute_distance_from_high(closes, period)
CallComputeDistanceFromHigh ==
    /\ call = NoCall
    /\ \E cl \in IndicatorSeries, period \in {10, 20} :
        /\ call' = [fn |-> "compute_distance_from_high", closes |-> cl, period |-> period]
        /\ ret' = Returned(compute_distance_from_high(cl, period))
    /\ UNCHANGED scoreVars
    /\ UNCHANGED btVars
    /\ UNCHANGED uiVars

\* compute_growth_rate(closes, period_days)
CallComputeGrowthRate ==
    /\ call = NoCall
    /\ \E cl \in IndicatorSeries, period_days \in {20, 252} :
        /\ call' = [fn |-> "compute_growth_rate", closes |-> cl, period |-> period_days]
        /\ ret' = Returned(compute_growth_rate(cl, period_days))
    /\ UNCHANGED scoreVars
    /\ UNCHANGED btVars
    /\ UNCHANGED uiVars

\* 11 closes at 1, a long stay at 100, four days at 140 and a last close of
\* 105: the last close is above the average of the closes before it
Spike(n) == Ramp(11, 1, 0) \o Ramp(n - 16, 100, 0) \o Ramp(4, 140, 0) \o <<105>>

\* rallies on both sides of 100 closes
SpikeHistories == {Spike(n) : n \in {90, 100, 101, 102}}

\* detect_proven_winner_capitulation(current_price, closes, sma100, rsi_value,
\* distance_from_high) with the last close as the current price
CallDetectCapitulation ==
    /\ call = NoCall
    /\ \E cl \in {s \in IndicatorSeries : Len(s) > 0} \cup ShapeHistories \cup SpikeHistories,
          rsi_value \in {NoneF, Frac(15, 1), Frac(20, 1)},
          distance_from_high \in {NoneF, Frac(-35, 1), Frac(-30, 1), Frac(-29, 1)},
          sma100 \in {NoneF, Frac(90, 1)} :
        /\ call' = [fn |-> "detect_proven_winner_capitulation", closes |-> cl, period |-> 0,
                    current_price |-> Frac(cl[Len(cl)], 1), sma100 |-> sma100,
                    rsi_value |-> rsi_value, distance_from_high |-> distance_from_high]
        /\ ret' = detect_proven_winner_capitulation(Frac(cl[Len(cl)], 1), cl, sma100,
                                                    rsi_value, distance_from_high)
    /\ UNCHANGED scoreVars
    /\ UNCHANGED btVars
    /\ UNCHANGED uiVars

\* get_rating_color(score) on a normalized score
CallGetRatingColor ==
    /\ call = NoCall
    /\ \E score \in 0..100 :
        /\ call' = [fn |-> "get_rating_color", score |-> score]
        /\ ret' = Returned(get_rating_color(score))
    /\ UNCHANGED scoreVars
    /\ UNCHANGED btVars
    /\ UNCHANGED uiVars

\* normalize_score(raw_score, max_points) with the maximum of either calculator
CallNormalizeScore ==
    /\ call = NoCall
    /\ \E max_points \in {TRADE_MAX_POINTS, INV_MAX_POINTS} :
        \E raw_score \in (-max_points)..max_points :
            /\ call' = [fn |-> "normalize_score", raw_score |-> raw_score,
                        max_points |-> max_points]
            /\ ret' = Returned(normalize_score(raw_score, max_points))
    /\ UNCHANGED scoreVars
    /\ UNCHANGED btVars
    /\ UNCHANGED uiVars

\* 50 quiet days, 9 days at twice the price, one day below SMA(50), then
\* days above SMA(50) that are not above SMA(10)
WeakReboundHistory == Ramp(50, 100, 0) \o Ramp(9, 200, 0) \o <<110, 130, 130>>

\* histories for the recovery scan: square waves, short and flat series
\* a weak rebound, then a day above both averages, a second dip and a recovery
WeakReboundThenRally == Ramp(50, 100, 0) \o Ramp(9, 200, 0) \o <<110, 130, 250, 90, 260>>

\* 50 quiet days, then a dip and a recovery every two days
QuickRecoveryHistory(n) == Ramp(50, 100, 0) \o [i \in 1..n |-> IF i % 2 = 1 THEN 90 ELSE 120]

RecoveryHistories ==
    WaveHistories
        \cup {Ramp(n, 100, 1) : n \in {0, 1, 49, 50, 51}}
        \cup {Ramp(60, 100, 0), WeakReboundHistory, WeakReboundThenRally}
        \cup {QuickRecoveryHistory(n) : n \in 1..5}

\* the scan of count_recovery_patterns is at 0-based day i of period_closes,
\* with the loop state st
Running(st, i) == [kind |-> "running", value |-> st, i |-> i]

\* count_recovery_patterns(closes, lookback_days): entry, up to the loop
CallCountRecoveryPatterns ==
    /\ call = NoCall
    /\ \E cl \in RecoveryHistories :
        LET period_closes == LastN(cl, 180)
        IN  /\ call' = [fn |-> "count_recovery_patterns", closes |-> cl,
                        lookback_days |-> 180, period_closes |-> period_closes]
            /\ ret' = IF Len(cl) < 50 \/ Len(period_closes) < 50
                          THEN Returned(0)
                          ELSE Running([recovery_count |-> 0, in_dip |-> FALSE], 50)
    /\ UNCHANGED scoreVars
    /\ UNCHANGED btVars
    /\ UNCHANGED uiVars

\* one iteration of `for i in range(50, len(period_closes))`
RecoveryDay ==
    /\ call.fn = "count_recovery_patterns"
    /\ ret.kind = "running"
    /\ ret.i < Len(call.period_closes)
    /\ ret' = Running(RecoveryStep(call.period_closes, ret.value, ret.i), ret.i + 1)
    /\ UNCHANGED call
    /\ UNCHANGED scoreVars
    /\ UNCHANGED btVars
    /\ UNCHANGED uiVars

\* the loop is over: return recovery_count
RecoveryReturn ==
    /\ call.fn = "count_recovery_patterns"
    /\ ret.kind = "running"
    /\ ret.i >= Len(call.period_closes)
    /\ ret' = Returned(ret.value.recovery_count)
    /\ UNCHANGED call
    /\ UNCHANGED scoreVars
    /\ UNCHANGED btVars
    /\ UNCHANGED uiVars

\* n closes at `start`, the last 100 of them at `end`
GrowthHistory(n, start, end) == [i \in 1..n |-> IF i <= n - 100 THEN start ELSE end]

\* one-year growth of 100%, 50%, 20%, 1%, 0% and -10%, and histories of 251
\* and 252 closes
GrowthHistories ==
    {GrowthHistory(260, 100, end) : end \in {200, 150, 120, 101, 100, 90}}
        \cup {GrowthHistory(251, 100, 200), GrowthHistory(252, 100, 200)}

\* the keyword arguments of a call that varies the base-score inputs only
InvestmentInputs ==
    {[current_price |-> Frac(100, 1),
      macd_bias |-> None, macd_hist |-> NoneF,
      rsi_value |-> NoneF, rsi_bias |-> None,
      sma10 |-> NoneF, sma20 |-> NoneF, sma50 |-> NoneF, sma100 |-> NoneF,
      trend10_bias |-> None, trend50_bias |-> None,
      long_term_trend |-> ltt, volatility_bias |-> "wild",
      distance_from_high |-> NoneF, resilience_count |-> res] :
        ltt \in Biases({"up", "down"}), res \in {0, 1, 3, 5}}

\* calculate_investment_score(...) called with keyword arguments and closes
CallCalculateInvestmentScore ==
    /\ call = NoCall
    /\ \E a \in InvestmentInputs, cl \in GrowthHistories :
        /\ call' = [fn |-> "calculate_investment_score", args |-> a, closes |-> cl]
        /\ ret' = Returned(calculate_investment_score(a, cl))
    /\ UNCHANGED scoreVars
    /\ UNCHANGED btVars
    /\ UNCHANGED uiVars

\* 40 days at `high`, 9 days at `low`, then the last close
DipRebound(high, low, last) == Ramp(40, high, 0) \o Ramp(9, low, 0) \o <<last>>

\* positive closes: pullbacks with a rebound of every size, waves, rallies
\* and crashes, and series shorter than the 50-day window
PatternSeries ==
    {DipRebound(high, low, last) :
        high \in {100, 200}, low \in {90, 100}, last \in {90, 95, 100, 101, 103, 110, 250}}
        \cup WaveHistories \cup ShapeHistories
        \cup {Ramp(n, 100, 1) : n \in {1, 9, 10, 49, 50, 51}}

\* detect_recovery_pattern with the last close as the current price and
\* sma10, sma50, trend10 and trend50 computed from the same closes, as
\* technical_panel.py and diagnose.py call it
CallDetectRecoveryPattern ==
    /\ call = NoCall
    /\ \E cl \in PatternSeries :
        LET current_price == Frac(cl[Len(cl)], 1)
            sma10 == compute_sma(cl, 10)
            sma50 == compute_sma(cl, 50)
            trend10 == compute_trend(cl, 10)
            trend50 == compute_trend(cl, 50)
        IN  /\ call' = [fn |-> "detect_recovery_pattern", closes |-> cl, period |-> 0,
                        current_price |-> current_price, sma10 |-> sma10, sma50 |-> sma50,
                        trend10_bias |-> trend10.bias, trend50_bias |-> trend50.bias]
            /\ ret' = Returned(detect_recovery_pattern(current_price, sma10, sma50,
                                                       trend10.bias, trend50.bias))
    /\ UNCHANGED scoreVars
    /\ UNCHANGED btVars
    /\ UNCHANGED uiVars

\* positive closes with and without a close above the SMA(100) in the
\* trailing 60 days: rallies that crash, steady declines, a rally that ended
\* more than 60 days ago, and histories around 60 and 100 closes
PostShockSeries ==
    ShapeHistories
        \cup {Ramp(n, 400, -1) : n \in {4, 5, 59, 60, 99, 100, 101, 160}}
        \cup {Ramp(n, 100, 1) : n \in {99, 100, 101}}
        \cup {Shape(70, 100, 30, 150, 10, 60, tail) : tail \in {49, 50, 51, 70}}

\* detect_post_shock_recovery with the last close as the current price
CallDetectPostShock ==
    /\ call = NoCall
    /\ \E cl \in PostShockSeries,
          distance_from_high \in {NoneF, Frac(-5, 1), Frac(-10, 1), Frac(-20, 1)},
          rsi_value \in {NoneF, Frac(15, 1), Frac(20, 1), Frac(25, 1)},
          given \in BOOLEAN :
        LET current_price == Frac(cl[Len(cl)], 1)
            sma100 == IF given THEN compute_sma(cl, 100) ELSE NoneF
        IN  /\ call' = [fn |-> "detect_post_shock_recovery", closes |-> cl, period |-> 0,
                        current_price |-> current_price, sma100 |-> sma100,
                        rsi_value |-> rsi_value, distance_from_high |-> distance_from_high]
            /\ ret' = Returned(detect_post_shock_recovery(current_price, distance_from_high,
                                   rsi_value, NoneF, None, cl, sma100))
    /\ UNCHANGED scoreVars
    /\ UNCHANGED btVars
    /\ UNCHANGED uiVars

\* the largest resilience_count handed to the calculators; the thresholds
\* of the code are 1, 3 (RESILIENCE_HIGH) and 5
MaxRecoveries == 6

\* histories of the resilience comparison: a capitulation, a crash with a
\* flat tail, a doubling and a mild rise over a year
ResilienceHistories ==
    {CapitulationHistory, Shape(70, 100, 30, 150, 6, 125, 2),
     GrowthHistory(260, 100, 200), GrowthHistory(260, 100, 120)}

\* the keyword arguments computed from the closes, with the volatility bias
\* and the recovery pattern (price between the two averages, both trends
\* up) set by hand
ResilienceInputs(cl) ==
    LET computed == IndicatorArgs(cl)
        last == cl[Len(cl)]
    IN  {IF pattern
             THEN [computed EXCEPT !.volatility_bias = vol,
                                   !.sma10 = Frac(last - 1, 1),
                                   !.sma50 = Frac(last + 1, 1),
                                   !.trend10_bias = "up", !.trend50_bias = "up"]
             ELSE [computed EXCEPT !.volatility_bias = vol] :
            vol \in {None, "wild"}, pattern \in BOOLEAN}

\* calculate_trade_score and calculate_investment_score called with the
\* same keyword arguments and closes for every resilience_count
CallCalculateScores ==
    /\ call = NoCall
    /\ \E cl \in ResilienceHistories :
        \E a \in ResilienceInputs(cl) :
            /\ call' = [fn |-> "calculate_scores", args |-> a, closes |-> cl]
            /\ ret' = Returned([r \in 0..MaxRecoveries |->
                         [trade |-> calculate_trade_score([a EXCEPT !.resilience_count = r], cl),
                          inv |-> calculate_investment_score([a EXCEPT !.resilience_count = r], cl)]])
    /\ UNCHANGED scoreVars
    /\ UNCHANGED btVars
    /\ UNCHANGED uiVars

LibraryNext ==
    \/ CallEvaluateAccuracy
    \/ CallComputeEma
    \/ CallComputeMacd
    \/ CallComputeRsi
    \/ CallComputeSma
    \/ CallComputeTrend
    \/ CallComputeVolatility
    \/ CallComputeDistanceFromHigh
    \/ CallComputeGrowthRate
    \/ CallDetectCapitulation
    \/ CallGetRatingColor
    \/ CallNormalizeScore
    \/ CallCountRecoveryPatterns
    \/ RecoveryDay
    \/ RecoveryReturn
    \/ CallCalculateInvestmentScore
    \/ CallDetectRecoveryPattern
    \/ CallDetectPostShock
    \/ CallCalculateScores

LibrarySpec == LibraryInit /\ [][LibraryNext]_vars

-----------------------------------------------------------------------------
(* app.py: market status, the refresh decision and the price-update        *)
(* worker.  Handlers run to completion on the UI thread; the worker runs   *)
(* on a thread of its own, one step per watchlist ticker.                  *)

\* a market status dict of the Finnhub API
MarketStatus(isOpen, session) == [kind |-> "dict", isOpen |-> isOpen, session |-> session]

\* market_status.get('isOpen', False)
IsOpen(market_status) ==
    IF "isOpen" \in DOMAIN market_status THEN market_status.isOpen ELSE FALSE

\* FinnhubClient.get_market_status('US'): the answers the app handles, a
\* status dict (with or without the key isOpen) or None when unavailable
get_market_status ==
    {NoStatus, MarketStatus(TRUE, "regular"), MarketStatus(TRUE, "pre"),
     MarketStatus(FALSE, "closed"), [kind |-> "dict", session |-> "unknown"]}

\* `if market_status:` / `if not market_status:`
Available(market_status) == market_status # NoStatus

\* _check_market_status: the status is stored before the decision is taken
check_market_status(market_status, last) ==
    IF Available(market_status) THEN market_status ELSE last

Decision(should_refresh, reason, done) ==
    [should_refresh |-> should_refresh, reason |-> reason, closing_refresh_done |-> done]

\* _should_refresh_prices that does not reset the flag when the market opens
should_refresh_prices_no_reset(market_status, last, done) ==
    IF ~Available(market_status) THEN Decision(TRUE, "Market status unavailable", done)
    ELSE IF IsOpen(market_status) THEN Decision(TRUE, "Market open", done)
    ELSE IF Available(last) /\ IsOpen(last)
        THEN Decision(TRUE, "Market just closed - capturing final prices", TRUE)
    ELSE IF done
        THEN Decision(FALSE, "Market closed - closing prices already captured", done)
    ELSE Decision(TRUE, "Capturing latest closing prices", TRUE)

\* _should_refresh_prices(market_status), with self.last_market_state and
\* self.closing_refresh_done as they are when it is called
should_refresh_prices(market_status, last, done) ==
    IF ~Available(market_status) THEN Decision(TRUE, "Market status unavailable", done)
    ELSE IF IsOpen(market_status) THEN Decision(TRUE, "Market open", FALSE)
    ELSE IF Available(last) /\ IsOpen(last)
        THEN Decision(TRUE, "Market just closed - capturing final prices", TRUE)
    ELSE IF done
        THEN Decision(FALSE, "Market closed - closing prices already captured", done)
    ELSE Decision(TRUE, "Capturing latest closing prices", TRUE)

\* the watchlist tickers the worker fetches
Tickers == 2

MaxTriggers == 4

\* a debounce test that looks for a worker not yet started
UpdateInProgress_pending ==
    update_worker # 0 /\ workers[update_worker].state = "PENDING"

\* self._update_worker and self._update_worker.state == WorkerState.RUNNING
UpdateInProgress ==
    update_worker # 0 /\ workers[update_worker].state = "RUNNING"

\* self.run_worker(self._update_prices_worker, thread=True): the worker is
\* started, and RUNNING, when run_worker returns
RunWorker(trigger) ==
    /\ workers' = Append(workers, [state |-> "RUNNING", fetched |-> 0,
                                    trigger |-> trigger, refresh_type |-> ""])
    /\ update_worker' = Len(workers) + 1

Debounced(trigger) == [trigger |-> trigger, debounced |-> TRUE]

Checked(trigger, market_status, refreshed, reason) ==
    [trigger |-> trigger, debounced |-> FALSE, market_status |-> market_status,
     refreshed |-> refreshed, reason |-> reason]

\* the body shared by action_update_prices and _auto_refresh_callback: the
\* debounce test, the market status check, the decision and the worker
UpdatePrices(trigger, last) ==
    IF UpdateInProgress
        THEN /\ triggers' = Append(triggers, Debounced(trigger))
             /\ last_market_state' = last
             /\ UNCHANGED <<closing_refresh_done, update_worker, is_auto_refresh, workers>>
    ELSE \E market_status \in get_market_status :
        LET stored == check_market_status(market_status, last)
            decision == should_refresh_prices(market_status, stored, closing_refresh_done)
        IN  /\ last_market_state' = stored
            /\ closing_refresh_done' = decision.closing_refresh_done
            /\ triggers' = Append(triggers, Checked(trigger, market_status,
                                      decision.should_refresh, decision.reason))
            /\ IF decision.should_refresh
                   THEN /\ is_auto_refresh' = (trigger = "auto")
                        /\ RunWorker(trigger)
               ELSE UNCHANGED <<update_worker, is_auto_refresh, workers>>

\* on_mount: the market status is checked once, the timer is started and
\* the first price update is triggered
OnMount ==
    /\ app = "constructed"
    /\ app' = "mounted"
    /\ \E market_status \in get_market_status :
        UpdatePrices("manual", check_market_status(market_status, last_market_state))
    /\ UNCHANGED <<scoreVars, btVars, libVars, apiVars>>

\* action_update_prices: the key u
ActionUpdatePrices ==
    /\ app = "mounted"
    /\ Len(triggers) < MaxTriggers
    /\ UpdatePrices("manual", last_market_state)
    /\ UNCHANGED <<app, scoreVars, btVars, libVars, apiVars>>

\* _auto_refresh_callback: a tick of the 300 s timer
AutoRefreshCallback ==
    /\ app = "mounted"
    /\ Len(triggers) < MaxTriggers
    /\ UpdatePrices("auto", last_market_state)
    /\ UNCHANGED <<app, scoreVars, btVars, libVars, apiVars>>

\* _update_prices_worker: one iteration of `for i, ticker in enumerate(tickers, 1)`
WorkerFetchQuote ==
    /\ \E w \in DOMAIN workers :
        /\ workers[w].state = "RUNNING"
        /\ workers[w].fetched < Tickers
        /\ workers' = [workers EXCEPT ![w].fetched = @ + 1]
    /\ UNCHANGED <<app, last_market_state, closing_refresh_done, update_worker, is_auto_refresh, triggers>>
    /\ UNCHANGED <<scoreVars, btVars, libVars, apiVars>>

\* _update_prices_worker: the loop is over; self._is_auto_refresh is read
\* and _refresh_after_update shows "Auto-updated" or "Updated"
WorkerReport ==
    /\ \E w \in DOMAIN workers :
        /\ workers[w].state = "RUNNING"
        /\ workers[w].fetched = Tickers
        /\ workers[w].refresh_type = ""
        /\ workers' = [workers EXCEPT
                ![w].refresh_type = IF is_auto_refresh THEN "Auto-updated" ELSE "Updated"]
    /\ UNCHANGED <<app, last_market_state, closing_refresh_done, update_worker, is_auto_refresh, triggers>>
    /\ UNCHANGED <<scoreVars, btVars, libVars, apiVars>>

\* the worker function has returned: the worker's state becomes SUCCESS
WorkerSuccess ==
    /\ \E w \in DOMAIN workers :
        /\ workers[w].state = "RUNNING"
        /\ workers[w].refresh_type # ""
        /\ workers' = [workers EXCEPT ![w].state = "SUCCESS"]
    /\ UNCHANGED <<app, last_market_state, closing_refresh_done, update_worker, is_auto_refresh, triggers>>
    /\ UNCHANGED <<scoreVars, btVars, libVars, apiVars>>

AppInit == ScoreInit

AppNext ==
    \/ OnMount
    \/ ActionUpdatePrices
    \/ AutoRefreshCallback
    \/ WorkerFetchQuote
    \/ WorkerReport
    \/ WorkerSuccess

AppSpec == AppInit /\ [][AppNext]_vars

-----------------------------------------------------------------------------
(* api/finnhub.py: the rate limiter of FinnhubClient._request, called on   *)
(* the UI thread (update_panels fetches a company profile) and on the      *)
(* worker thread (get_quote for each ticker).  A thread takes one step at  *)
(* a time and the clock may advance between any two steps.                 *)

\* self.min_request_interval = 1.0
min_request_interval == 1 * Second

MaxTime == Epoch + 3 * Second

MaxRequests == 4

\* _rate_limit: elapsed = time.time() - self.last_request_time, and the
\* test that decides whether to sleep
BeginRequest(t) ==
    /\ thread[t].pc = "outside"
    /\ Len(sent) + Cardinality({u \in Threads : thread[u].pc \in {"sleep", "stamp"}}) < MaxRequests
    /\ LET elapsed == now - last_request_time
       IN  thread' = [thread EXCEPT ![t] =
                IF elapsed < min_request_interval
                    THEN [pc |-> "sleep", elapsed |-> elapsed,
                          wake |-> now + (min_request_interval - elapsed)]
                ELSE [pc |-> "stamp", elapsed |-> elapsed, wake |-> now]]
    /\ UNCHANGED <<now, last_request_time, sent>>
    /\ UNCHANGED <<scoreVars, btVars, libVars, appVars>>

\* update_panels on the UI thread: self.finnhub.get_company_profile(ticker)
\* for a ticker that is not in profile_cache
CallGetCompanyProfile == BeginRequest("ui")

\* _update_prices_worker on the worker thread: self.finnhub.get_quote(ticker)
CallGetQuote == BeginRequest("worker")

\* time.sleep(self.min_request_interval - elapsed) returns, not before the
\* time asked for
Wake ==
    /\ \E t \in Threads :
        /\ thread[t].pc = "sleep"
        /\ now >= thread[t].wake
        /\ thread' = [thread EXCEPT ![t].pc = "stamp"]
    /\ UNCHANGED <<now, last_request_time, sent>>
    /\ UNCHANGED <<scoreVars, btVars, libVars, appVars>>

\* self.last_request_time = time.time(), and requests.get starts
SendRequest ==
    /\ \E t \in Threads :
        /\ thread[t].pc = "stamp"
        /\ last_request_time' = now
        /\ sent' = Append(sent, [thread |-> t, time |-> now])
        /\ thread' = [thread EXCEPT ![t].pc = "get"]
    /\ UNCHANGED now
    /\ UNCHANGED <<scoreVars, btVars, libVars, appVars>>

\* the response arrives and _request returns
Respond ==
    /\ \E t \in Threads :
        /\ thread[t].pc = "get"
        /\ thread' = [thread EXCEPT ![t] = Outside]
    /\ UNCHANGED <<now, last_request_time, sent>>
    /\ UNCHANGED <<scoreVars, btVars, libVars, appVars>>

\* time passes
Tick ==
    /\ now < MaxTime
    /\ now' = now + 1
    /\ UNCHANGED <<last_request_time, thread, sent>>
    /\ UNCHANGED <<scoreVars, btVars, libVars, appVars>>

ClientInit == ScoreInit

ClientNext ==
    \/ CallGetCompanyProfile
    \/ CallGetQuote
    \/ Wake
    \/ SendRequest
    \/ Respond
    \/ Tick

ClientSpec == ClientInit /\ [][ClientNext]_vars

-----------------------------------------------------------------------------
(* Properties of the scoring session                                       *)

Scored == phase \in {"scored", "shown"}

\* C1: whatever the inputs of the two calculators, turnaround_score and
\* bau_score lie in 0..100, and the raw scores stay within -395..395 (Trade)
\* and -465..465 (Investment).
C1_ScoresWithinRange ==
    Scored =>
        /\ trade.turnaround_score \in 0..100
        /\ trade.bau_score \in 0..100
        /\ inv.turnaround_score \in 0..100
        /\ inv.bau_score \in 0..100
        /\ trade.turnaround_raw \in -395..395
        /\ trade.bau_raw \in -395..395
        /\ inv.turnaround_raw \in -465..465
        /\ inv.bau_raw \in -465..465

\* a call whose Trade score takes the capitulation bonus on top of a positive
\* base: the highest scores the calculators produce
C1_Witness ==
    /\ phase = "scored"
    /\ trade.turnaround_raw > TimesMultiplierHigh(TRADE_CAPITULATION_BONUS)
    /\ trade.turnaround_score >= 80
    /\ inv.turnaround_score >= 60

\* C2: in the result of either calculator turnaround_active is true exactly
\* when the capitulation pattern is detected, SMA(50) is present and the
\* current price is strictly below SMA(50).
C2_TurnaroundActiveIff ==
    Scored =>
        LET detected ==
                detect_proven_winner_capitulation(args.current_price, closes, args.sma100,
                                                  args.rsi_value, args.distance_from_high).value
            below_sma50 ==
                /\ args.sma50.d # 0
                /\ args.current_price.n * args.sma50.d < args.sma50.n * args.current_price.d
        IN  /\ trade.turnaround_active = (detected /\ below_sma50)
            /\ inv.turnaround_active = (detected /\ below_sma50)

\* both results flag the turnaround: capitulation detected below SMA(50)
C2_Witness ==
    /\ phase = "scored"
    /\ trade.turnaround_active
    /\ inv.turnaround_active
    /\ args.current_price.n * args.sma50.d < args.sma50.n * args.current_price.d

\* C3: the displayed score and raw score are the BAU ones whenever
\* turnaround_active is false and the turnaround ones only when it is true,
\* so a capitulation detected at or above SMA(50) leaves the display alone.
C3_DisplayFollowsFlag ==
    phase = "shown" =>
        /\ ~trade.turnaround_active =>
               shown.trade.score = trade.bau_score /\ shown.trade.raw = trade.bau_raw
        /\ trade.turnaround_active =>
               shown.trade.score = trade.turnaround_score
               /\ shown.trade.raw = trade.turnaround_raw
        /\ ~inv.turnaround_active =>
               shown.inv.score = inv.bau_score /\ shown.inv.raw = inv.bau_raw
        /\ inv.turnaround_active =>
               shown.inv.score = inv.turnaround_score /\ shown.inv.raw = inv.turnaround_raw

\* a capitulation detected at or above SMA(50): the two Trade variants
\* differ and the BAU one is displayed
C3_Witness ==
    /\ phase = "shown"
    /\ ~trade.turnaround_active
    /\ trade.turnaround_score # trade.bau_score
    /\ shown.trade.score = trade.bau_score

\* C4: bau_raw is the base plus the post-shock bonus (if detected) plus the
\* cheap-on-winner bonus (if detected), never the capitulation bonus;
\* turnaround_raw is the base plus the capitulation bonus if capitulation is
\* detected, otherwise the post-shock bonus if detected, plus the
\* cheap-on-winner bonus if detected.
C4_VariantComposition ==
    phase = "scored" =>
        LET capitulation == CapitulationDetected(args, closes)
            post_shock == PostShockDetected(args, closes)
            cheap == IF CheapWinnerDetected(args) THEN 15 ELSE 0
            Bonus(points) ==
                IF args.resilience_count >= 3 THEN (points * 12) \div 10 ELSE points
            trade_base == TradeBase(args)
            inv_base == InvestmentBase(args, closes)
        IN  /\ trade.bau_raw =
                   trade_base + (IF post_shock THEN Bonus(60) ELSE 0) + cheap
            /\ trade.turnaround_raw =
                   trade_base
                   + (IF capitulation THEN Bonus(205)
                      ELSE IF post_shock THEN Bonus(60) ELSE 0)
                   + cheap
            /\ inv.bau_raw =
                   inv_base + (IF post_shock THEN Bonus(60) ELSE 0) + cheap
            /\ inv.turnaround_raw =
                   inv_base
                   + (IF capitulation THEN Bonus(60)
                      ELSE IF post_shock THEN Bonus(60) ELSE 0)
                   + cheap

\* all three patterns are detected at once
C4_Witness ==
    /\ phase = "scored"
    /\ CheapWinnerDetected(args)
    /\ CapitulationDetected(args, closes)
    /\ PostShockDetected(args, closes)
    /\ trade.turnaround_raw - trade.bau_raw = 205 - 60

ShortSeriesScored ==
    /\ phase = "scored"
    /\ Len(closes) \in 1..MaxShortLen
    /\ args = IndicatorArgs(closes)

\* C5 as stated: a series shorter than the minimum windows gives exactly
\* turnaround_raw = 50, turnaround_score = 50, bau_raw = 50, bau_score = 50,
\* turnaround_active = False.
C5_Original ==
    ShortSeriesScored => trade = ScoreResult(50, 50, 50, 50, FALSE)

\* C5 amended: a series shorter than every minimum window but volatility's
\* gives equal variants with turnaround_active false: raw 0 and score 50
\* when the volatility bias is absent or choppy, raw 5 and score 51 when
\* it is calm or wild.
C5_ShortSeriesNeutral ==
    ShortSeriesScored =>
        LET points == IF args.volatility_bias \in {"calm", "wild"} THEN 5 ELSE 0
        IN  trade = ScoreResult(points, IF points = 0 THEN 50 ELSE 51,
                                points, IF points = 0 THEN 50 ELSE 51, FALSE)

\* a five-point series with a calm volatility bias scores 51
C5_Witness ==
    /\ ShortSeriesScored
    /\ Len(closes) = MaxShortLen
    /\ args.volatility_bias = "calm"
    /\ trade.bau_score = 51

\* C6: a Trade score is labelled with Trade thresholds of its own, 75 and
\* above STRONG BUY and 70..74 BUY, while an Investment score needs 80 for
\* STRONG BUY.
C6_TradeThresholds ==
    phase = "shown" =>
        /\ shown.trade.score >= 75 => shown.trade.label = "STRONG BUY"
        /\ shown.trade.score \in 70..74 => shown.trade.label = "BUY"
        /\ shown.inv.score >= 80 <=> shown.inv.label = "STRONG BUY"

-----------------------------------------------------------------------------
(* Properties of the back-test                                             *)

\* C7: no look-ahead.  Whatever is added, removed or changed on or after
\* the as-of date, calculate_score_at_date gives the outcome it gave on the
\* store before the change.
C7_NoLookAhead ==
    (outcome # Unset /\ baseline # Unset) => outcome = baseline

\* the call is repeated after a row on the as-of date itself has changed,
\* on a store with exactly 50 rows before that date
C7_Witness ==
    /\ edits >= 1
    /\ outcome = Raised("TypeError")
    /\ Cardinality({d \in DOMAIN db : db[d] # NoRow /\ d < asof}) = 50
    /\ db[asof] = 110

\* C8: with at least 50 closes strictly before the as-of date
\* calculate_score_at_date returns the pair (trade score, investment
\* score) of integers in 0..100 without raising, with fewer it returns None.
C8_ScoresReturned ==
    outcome # Unset =>
        IF Cardinality({d \in DOMAIN db : db[d] # NoRow /\ d < asof}) >= 50
            THEN /\ outcome.kind = "returned"
                 /\ outcome.value # None
                 /\ outcome.value[1] \in 0..100
                 /\ outcome.value[2] \in 0..100
            ELSE outcome = Returned(None)

\* C9: a forward return is None exactly when the stored series does not
\* reach the as-of date plus the horizon.
C9_NoneIffNoFutureData ==
    (fwd # Unset /\ fwd.from_price.n # 0) =>
        (IsNone(fwd.value)
            <=> ~\E d \in DOMAIN db : db[d] # NoRow /\ d >= asof + fwd.horizon)

\* the close on day x or on the nearest day before it that has a row
PriceOnOrBefore(x) ==
    LET day == CHOOSE d \in 0..x : db[d] # NoRow /\ \A e \in (d + 1)..x : db[e] = NoRow
    IN  db[day]

\* C10: the forward return at horizon h from as-of date D is
\* (P(D + h) - P(D)) / P(D), P(x) being the close on x or on the nearest
\* prior day with a row, and it is None when P(D) = 0.
C10_ForwardReturn ==
    fwd # Unset =>
        LET from == PriceOnOrBefore(asof)
            to == PriceOnOrBefore(asof + fwd.horizon)
        IN  /\ fwd.from_price = Frac(from, 1)
            /\ IF from = 0 THEN IsNone(fwd.value)
               ELSE /\ ~IsNone(fwd.value)
                    /\ fwd.value.n * from = (to - from) * fwd.value.d

\* a flat series at 100 that jumps to 110 exactly 14 days after the as-of
\* date: the 14-day return is 1/10
C10_Witness ==
    /\ fwd # Unset
    /\ fwd.horizon = 14
    /\ db[asof] = 100 /\ db[asof + 11] = 100 /\ db[asof + 14] = 110
    /\ ~IsNone(fwd.value)
    /\ fwd.value.n * 10 = fwd.value.d

-----------------------------------------------------------------------------
(* Properties of the library functions                                     *)

Called(fn) == call.fn = fn /\ ret.kind = "returned"

\* the rating evaluate_accuracy groups result r by
TierOf(r, score_type) == IF score_type = "trade" THEN r.trade_rating ELSE r.investment_rating

RatingTiers == <<"STRONG BUY", "BUY", "OUTPERFORM", "HOLD", "UNDERPERFORM", "SELL">>

\* the results of tier t whose return at the horizon is present
Measured(rs, score_type, t, horizon) ==
    {i \in 1..Len(rs) : TierOf(rs[i], score_type) = t /\ rs[i][horizon].d # 0}

\* product of the denominators of the returns of the results in S
Denominators(rs, S, horizon) ==
    Loop(LAMBDA acc, i : IF i \in S THEN acc * rs[i][horizon].d ELSE acc, 1, 1, Len(rs))

\* the two statistics of one tier and one horizon are those of its present returns
TierStatistics(rs, score_type, t, horizon, rate, avg) ==
    LET S == Measured(rs, score_type, t, horizon)
        positive == {i \in S : rs[i][horizon].n * rs[i][horizon].d > 0}
        D == Denominators(rs, S, horizon)
        total == SumSeq([i \in 1..Len(rs) |->
                            IF i \in S THEN rs[i][horizon].n * (D \div rs[i][horizon].d) ELSE 0])
    IN  IF S = {}
            THEN rate.d # 0 /\ rate.n = 0 /\ avg.d # 0 /\ avg.n = 0
            ELSE /\ rate.d # 0 /\ rate.n * Cardinality(S) = Cardinality(positive) * rate.d
                 /\ avg.d # 0 /\ avg.n * D * Cardinality(S) = total * avg.d

\* C11: evaluate_accuracy puts every result in exactly one tier, the tier of
\* its trade rating or of its investment rating as score_type says, so the
\* tier counts sum to the number of results; per tier and horizon the
\* positive rate is (present returns > 0) / (present returns) and the average
\* is their mean, both 0 when the tier has no present return at the horizon
C11_AccuracyStatistics ==
    Called("evaluate_accuracy") =>
        LET rs == call.results
            stats == ret.value
        IN  /\ \A i \in 1..Len(rs) : TierOf(rs[i], call.score_type) \in DOMAIN stats
            /\ \A t \in DOMAIN stats :
                /\ stats[t].rating = t
                /\ stats[t].count = Cardinality({i \in 1..Len(rs) : TierOf(rs[i], call.score_type) = t})
                /\ TierStatistics(rs, call.score_type, t, "return_2w",
                                  stats[t].positive_rate_2w, stats[t].avg_return_2w)
                /\ TierStatistics(rs, call.score_type, t, "return_1m",
                                  stats[t].positive_rate_1m, stats[t].avg_return_1m)
                /\ TierStatistics(rs, call.score_type, t, "return_3m",
                                  stats[t].positive_rate_3m, stats[t].avg_return_3m)
            /\ SumSeq([k \in 1..Len(RatingTiers) |->
                          IF RatingTiers[k] \in DOMAIN stats THEN stats[RatingTiers[k]].count ELSE 0])
                   = Len(rs)

\* three results in two tiers, one tier with no 3-month return and with a
\* 2-week return of exactly 0 among its present ones
C11_Witness ==
    /\ Called("evaluate_accuracy")
    /\ call.score_type = "investment"
    /\ Len(call.results) = 3
    /\ Cardinality(DOMAIN ret.value) = 2
    /\ \E t \in DOMAIN ret.value :
        /\ ret.value[t].count = 2
        /\ Measured(call.results, "investment", t, "return_3m") = {}
        /\ Cardinality(Measured(call.results, "investment", t, "return_2w")) = 1
        /\ ret.value[t].avg_return_3m.n = 0
    /\ \E t \in DOMAIN ret.value, i \in 1..3 :
        /\ TierOf(call.results[i], "investment") = t
        /\ call.results[i].return_2w = Frac(0, 1)

\* the functions that divide by a price, a high or a moving average
DividingFunctions ==
    {"compute_trend", "compute_volatility", "compute_distance_from_high",
     "compute_growth_rate", "detect_proven_winner_capitulation"}

\* C12: on a price series that contains closes of 0, compute_trend,
\* compute_volatility, compute_distance_from_high, compute_growth_rate and
\* detect_proven_winner_capitulation never raise: each call returns (None or
\* False where the divisor is 0)
C12_NoDivisionError ==
    (/\ call.fn \in DividingFunctions
     /\ \E i \in 1..Len(call.closes) : call.closes[i] = 0)
        => ret.kind = "returned"

\* minimum number of values the called indicator needs
MinimumWindow ==
    IF call.fn \in {"compute_rsi", "compute_distance_from_high"} THEN call.period + 1
    ELSE call.period

\* the call returned the absent value of its result type
ReturnedAbsent ==
    /\ ret.kind = "returned"
    /\ ret.value = (IF call.fn = "compute_ema" THEN << >>
                    ELSE IF call.fn = "compute_macd" THEN NoMACD
                    ELSE IF call.fn = "compute_rsi" THEN NoRSI
                    ELSE IF call.fn = "compute_trend" THEN NoTrend
                    ELSE NoneF)

\* the call returned a value: one EMA per input value, or numbers and a bias
ReturnedValue ==
    /\ ret.kind = "returned"
    /\ IF call.fn = "compute_ema" THEN Len(ret.value) = Len(call.closes)
       ELSE IF call.fn = "compute_macd"
           THEN /\ ret.value.macd.d # 0 /\ ret.value.signal.d # 0 /\ ret.value.hist.d # 0
                /\ ret.value.bias \in {"bull", "bear", "neutral"}
       ELSE IF call.fn = "compute_rsi"
           THEN /\ ret.value.value.d # 0
                /\ ret.value.bias \in {"overbought", "strong", "neutral", "weak", "oversold"}
       ELSE IF call.fn = "compute_trend"
           THEN /\ ret.value.sma_value.d # 0 /\ ret.value.delta_pct.d # 0
                /\ ret.value.bias \in {"up", "down", "sideways"}
       ELSE ret.value.d # 0

WindowFunctions ==
    {"compute_ema", "compute_macd", "compute_rsi", "compute_sma", "compute_trend",
     "compute_distance_from_high", "compute_growth_rate"}

\* C13: an indicator called with fewer values than its minimum window
\* returns its absent value and raises nothing: compute_ema the empty list
\* below `period` values, compute_macd None below 26, compute_rsi None below
\* period + 1, compute_sma and compute_trend None below `period`,
\* compute_distance_from_high None below period + 1, compute_growth_rate
\* None below period_days; called with at least that many values, all of
\* them positive prices, it returns a value
C13_MinimumWindows ==
    call.fn \in WindowFunctions =>
        /\ Len(call.closes) < MinimumWindow => ReturnedAbsent
        /\ (/\ Len(call.closes) >= MinimumWindow
            /\ \A i \in 1..Len(call.closes) : call.closes[i] > 0) => ReturnedValue

\* compute_rsi(closes, 14) called with 14 positive closes, one short of its window
C13_Witness ==
    /\ call.fn = "compute_rsi" /\ call.period = 14
    /\ Len(call.closes) = 14 /\ call.closes[1] > 0
    /\ ReturnedAbsent

\* no close is below the one before it
Rising(cl) == \A i \in 1..(Len(cl) - 1) : cl[i] <= cl[i + 1]

\* no close is above the one before it
Falling(cl) == \A i \in 1..(Len(cl) - 1) : cl[i] >= cl[i + 1]

\* some close among the last k + 1 is below the one before it
FallsInLast(cl, k) == \E i \in (Len(cl) - k)..(Len(cl) - 1) : cl[i] > cl[i + 1]

\* compute_rsi with the default period was called on at least 15 closes
RsiCalled == Called("compute_rsi") /\ call.period = 14 /\ Len(call.closes) >= 15

Overbought == ret.value.value.d # 0 /\ ret.value.value.n >= 70 * ret.value.value.d /\ ret.value.bias = "overbought"

Oversold == ret.value.value.d # 0 /\ ret.value.value.n <= 30 * ret.value.value.d /\ ret.value.bias = "oversold"

\* C14 as stated: every monotonically rising series of at least 15 closes has
\* RSI >= 70 and bias Overbought, every monotonically falling one RSI <= 30
\* and bias Oversold
C14_Original ==
    RsiCalled =>
        /\ Rising(call.closes) => Overbought
        /\ Falling(call.closes) => Oversold

\* C14 amended: every monotonically rising series of at least 15 closes has
\* RSI >= 70 and bias Overbought; every monotonically falling one with a
\* fall among its last 14 changes has RSI <= 30 and bias Oversold, and one
\* whose last 14 changes are all 0 has RSI 100 and bias Overbought
C14_RsiBoundary ==
    RsiCalled =>
        /\ Rising(call.closes) => Overbought
        /\ (Falling(call.closes) /\ FallsInLast(call.closes, 14)) => Oversold
        /\ (Falling(call.closes) /\ ~FallsInLast(call.closes, 14)) =>
               ret.value = RSIResult(Frac(100, 1), "overbought")

\* a falling series of 20 closes that repeats a close among its last 14
\* changes and is oversold
C14_Witness ==
    /\ RsiCalled
    /\ Len(call.closes) = 20
    /\ Falling(call.closes) /\ FallsInLast(call.closes, 14)
    /\ \E i \in 6..19 : call.closes[i] = call.closes[i + 1]
    /\ Oversold

StrictlyIncreasing(cl) == \A i \in 1..(Len(cl) - 1) : cl[i] < cl[i + 1]

StrictlyDecreasing(cl) == \A i \in 1..(Len(cl) - 1) : cl[i] > cl[i + 1]

\* every close differs from the one before it by the same amount
ConstantStep(cl) == \A i \in 2..(Len(cl) - 1) : cl[i + 1] - cl[i] = cl[2] - cl[1]

\* compute_macd was called on 30 closes
MacdCalled == Called("compute_macd") /\ Len(call.closes) = 30

Bull == ret.value.hist.d > 0 /\ ret.value.hist.n > 0 /\ ret.value.bias = "bull"

Bear == ret.value.hist.d > 0 /\ ret.value.hist.n < 0 /\ ret.value.bias = "bear"

\* C15 as stated: every strictly increasing series of 30 closes has hist > 0
\* and bias Bull, every strictly decreasing one bias Bear
C15_Original ==
    MacdCalled =>
        /\ StrictlyIncreasing(call.closes) => Bull
        /\ StrictlyDecreasing(call.closes) => Bear

\* C15 amended: every series of 30 closes that rises by the same step of at
\* least 1 each day has hist > 0 and bias Bull, every one that falls by the
\* same step of at least 1 each day has hist < 0 and bias Bear
C15_MacdSign ==
    (MacdCalled /\ ConstantStep(call.closes)) =>
        /\ StrictlyIncreasing(call.closes) => Bull
        /\ StrictlyDecreasing(call.closes) => Bear

\* 30 closes falling by 2 a day, judged Bear
C15_Witness ==
    /\ MacdCalled
    /\ ConstantStep(call.closes)
    /\ call.closes[2] - call.closes[1] = -2
    /\ Bear

\* the colours from red to green
ColourRamp == <<"#ff0000", "#ff8888", "#888888", "#88ff88", "#00ff00">>

\* position of a colour on the ramp, 0 for a colour that is not on it
RampPosition(colour) ==
    IF \E k \in 1..Len(ColourRamp) : ColourRamp[k] = colour
        THEN CHOOSE k \in 1..Len(ColourRamp) : ColourRamp[k] = colour
        ELSE 0

\* the colours get_rating_color gives to the scores 0..100
ColoursUsed == {get_rating_color(t) : t \in 0..100}

\* a higher score never gets a colour nearer to red
ColourMonotonic ==
    /\ RampPosition(ret.value) > 0
    /\ \A t \in call.score..100 : RampPosition(get_rating_color(t)) >= RampPosition(ret.value)

\* C16 as stated: get_rating_color maps the scores 0..100 onto six distinct
\* colours, one per rating tier, monotonically
C16_Original ==
    Called("get_rating_color") =>
        /\ Cardinality(ColoursUsed) = 6
        /\ \A t \in 0..100 :
               (get_rating_color(t) = ret.value)
                   <=> (get_rating_label(t) = get_rating_label(call.score))
        /\ ColourMonotonic

\* the tier of a score when BUY and STRONG BUY count as one
ColourTier(score) ==
    IF get_rating_label(score) = "STRONG BUY" THEN "BUY" ELSE get_rating_label(score)

\* C16 amended: get_rating_color maps the scores 0..100 onto five distinct
\* colours, one per rating tier except that BUY and STRONG BUY share one,
\* monotonically
C16_ColourRamp ==
    Called("get_rating_color") =>
        /\ Cardinality(ColoursUsed) = 5
        /\ \A t \in 0..100 :
               (get_rating_color(t) = ret.value) <=> (ColourTier(t) = ColourTier(call.score))
        /\ ColourMonotonic

\* a STRONG BUY score gets the colour of a BUY score
C16_Witness ==
    /\ Called("get_rating_color")
    /\ get_rating_label(call.score) = "STRONG BUY"
    /\ ret.value = get_rating_color(70)
    /\ get_rating_label(70) = "BUY"

\* C17: with max_points 395 or 465, normalize_score(max_points, max_points)
\* is 100, normalize_score(-max_points, max_points) is 0,
\* normalize_score(0, max_points) is 50, and the score never decreases when
\* the raw score increases
C17_NormalizeEndpoints ==
    (Called("normalize_score") /\ call.max_points \in {395, 465}) =>
        /\ call.raw_score = call.max_points => ret.value = 100
        /\ call.raw_score = -call.max_points => ret.value = 0
        /\ call.raw_score = 0 => ret.value = 50
        /\ \A lower \in (-call.max_points)..call.raw_score :
               normalize_score(lower, call.max_points) <= ret.value

\* the lowest raw score of the Investment calculator, normalized
C17_Witness ==
    /\ Called("normalize_score")
    /\ call.max_points = 465
    /\ call.raw_score = -465
    /\ ret.value = 0

\* the scan of count_recovery_patterns is inside its loop
Scanning == call.fn = "count_recovery_patterns" /\ ret.kind = "running"

\* the day the scan looks at next, against the averages of the last 50 and
\* the last 10 closes up to and including that day
DayBelowSma50 ==
    50 * call.period_closes[ret.i + 1] < SumFrom(call.period_closes, ret.i - 48, ret.i + 1)

DayAboveSma50 ==
    50 * call.period_closes[ret.i + 1] > SumFrom(call.period_closes, ret.i - 48, ret.i + 1)

DayAboveSma10 ==
    10 * call.period_closes[ret.i + 1] > SumFrom(call.period_closes, ret.i - 8, ret.i + 1)

\* one day of the scan as the two-state machine
ScanDay ==
    /\ ret'.kind = "running" /\ ret'.i = ret.i + 1
    /\ ret'.value.in_dip = (IF DayBelowSma50 THEN TRUE
                            ELSE IF DayAboveSma50 THEN FALSE
                            ELSE ret.value.in_dip)
    /\ ret'.value.recovery_count =
           (IF ret.value.in_dip /\ DayAboveSma50 /\ DayAboveSma10
                THEN ret.value.recovery_count + 1
                ELSE ret.value.recovery_count)
    \* a recovery is counted only on leaving the dip, and the dip is entered
    \* only on a day below SMA(50): no two recoveries without such a day between
    /\ ret'.value.recovery_count # ret.value.recovery_count
           => ret.value.in_dip /\ ~ret'.value.in_dip
    /\ (ret'.value.in_dip /\ ~ret.value.in_dip) => DayBelowSma50

\* C18: count_recovery_patterns scans day by day as a two-state machine: a
\* day with price < SMA(50) enters the dip; a later day in the dip with
\* price > SMA(50) and price > SMA(10) is a recovery that adds exactly one to
\* the count and leaves the dip; two recoveries are never counted without a
\* day below SMA(50) between them; the result is the count, and 0 for fewer
\* than 50 points
C18_RecoveryStateMachine ==
    [][/\ (call = NoCall /\ call'.fn = "count_recovery_patterns") =>
              /\ Len(call'.closes) < 50 => ret' = Returned(0)
              /\ Len(call'.closes) >= 50 =>
                     ret' = Running([recovery_count |-> 0, in_dip |-> FALSE], 50)
       /\ (Scanning /\ ret.i < Len(call.period_closes)) => ScanDay
       /\ (Scanning /\ ret.i >= Len(call.period_closes)) =>
              ret' = Returned(ret.value.recovery_count)]_vars

\* the scan has counted two recoveries and is in a third dip
C18_Witness ==
    /\ Scanning
    /\ ret.value.recovery_count = 2
    /\ ret.value.in_dip

\* 1-based positions of the trailing 90 closes
Trailing90(cl) == (Len(cl) - 89)..Len(cl)

\* position of the first highest close among the trailing 90
PeakAt(cl) ==
    CHOOSE i \in Trailing90(cl) :
        /\ \A j \in Trailing90(cl) : cl[j] <= cl[i]
        /\ \A j \in Trailing90(cl) : j < i => cl[j] < cl[i]

\* position of the first lowest close of the trailing 90 up to the peak
TroughAt(cl) ==
    CHOOSE i \in (Len(cl) - 89)..PeakAt(cl) :
        /\ \A j \in (Len(cl) - 89)..PeakAt(cl) : cl[j] >= cl[i]
        /\ \A j \in (Len(cl) - 89)..PeakAt(cl) : j < i => cl[j] > cl[i]

YearGrowth(cl) ==
    Frac((cl[Len(cl)] - cl[Len(cl) - 251]) * 100, cl[Len(cl) - 251])

\* C20: the base of the Investment score is the sum of independent
\* components: +25 / -25 / 0 for a long-term trend Up / Down / other; +35,
\* +25, +15, 0 for a resilience count >= 5, >= 3, >= 1, 0; and, with at least
\* 252 closes, +30, +20, +10, +5 for a growth rate >= 100%, >= 50%, >= 20%,
\* > 0%, with the penalty of -15 only when the growth is negative
C20_BaseComponents ==
    (/\ Called("calculate_investment_score")
     /\ ~PostShockDetected(call.args, call.closes)
     /\ ~CheapWinnerDetected(call.args)) =>
        LET a == call.args
            cl == call.closes
            trend == IF a.long_term_trend = "up" THEN 25
                     ELSE IF a.long_term_trend = "down" THEN -25 ELSE 0
            resilience == IF a.resilience_count >= 5 THEN 35
                          ELSE IF a.resilience_count >= 3 THEN 25
                          ELSE IF a.resilience_count >= 1 THEN 15 ELSE 0
            growth == IF Len(cl) < 252 THEN 0
                      ELSE IF YearGrowth(cl).n >= 100 * YearGrowth(cl).d THEN 30
                      ELSE IF YearGrowth(cl).n >= 50 * YearGrowth(cl).d THEN 20
                      ELSE IF YearGrowth(cl).n >= 20 * YearGrowth(cl).d THEN 10
                      ELSE IF YearGrowth(cl).n > 0 THEN 5
                      ELSE IF YearGrowth(cl).n < 0 THEN -15
                      ELSE 0
        IN  ret.value.bau_raw - GrowthQualityBonuses(a, cl) = trend + resilience + growth


-----------------------------------------------------------------------------
(* Properties of the sampling loop of backtest_ticker                      *)

\* the as-of dates start + k * interval_days that are <= end
SampleDates ==
    {d \in span.start_date..span.end_date :
        (d - span.start_date) % span.interval_days = 0}

\* C21: backtest_ticker evaluates exactly the as-of dates start + k *
\* interval_days that are <= end, in increasing order: the date it is at is
\* one of them or the first one past end, the results have strictly
\* increasing dates among the dates already evaluated, and it ends, by
\* returning its results, only after the last of them.
C21_SamplesEveryInterval ==
    pc # "idle" =>
        /\ span.interval_days >= 1
        /\ current_date >= span.start_date
        /\ (current_date - span.start_date) % span.interval_days = 0
        /\ current_date - span.interval_days <= span.end_date
        /\ \A i \in 1..Len(results) :
            /\ results[i].date \in SampleDates
            /\ results[i].date < current_date
            /\ i > 1 => results[i - 1].date < results[i].date
        /\ pc # "loop" => pc = "returned" /\ current_date > span.end_date


-----------------------------------------------------------------------------
(* Properties of the price refresh                                         *)

\* the triggers that got as far as checking the market status
RefreshChecks == {i \in DOMAIN triggers : ~triggers[i].debounced}

\* the checks before check i that saw a market status
SeenBefore(i) ==
    {j \in RefreshChecks : j < i /\ Available(triggers[j].market_status)}

\* check i is the first of a run of checks that see the market closed: no
\* check saw a status before it, or the last one that did saw the market open
FirstOfClosedRun(i) ==
    \/ SeenBefore(i) = {}
    \/ LET j == CHOOSE j \in SeenBefore(i) : \A k \in SeenBefore(i) : k <= j
       IN  IsOpen(triggers[j].market_status)

\* C22: every refresh check, manual or auto, that sees the market open
\* refreshes prices; of each maximal run of checks that see the market
\* closed, the run at app start included, exactly the first refreshes and
\* the later ones are skipped; a check whose status is unavailable always
\* refreshes, and does not break a run.
C22_RefreshDecision ==
    \A i \in RefreshChecks :
        LET market_status == triggers[i].market_status
        IN  IF ~Available(market_status) THEN triggers[i].refreshed
            ELSE IF IsOpen(market_status) THEN triggers[i].refreshed
            ELSE triggers[i].refreshed <=> FirstOfClosedRun(i)

\* closed at app start (refreshed), closed again (skipped), open
\* (refreshed), closed (refreshed)
C22_Witness ==
    /\ Len(triggers) = 4
    /\ RefreshChecks = 1..4
    /\ \A i \in 1..4 : Available(triggers[i].market_status)
    /\ ~IsOpen(triggers[1].market_status) /\ triggers[1].refreshed
    /\ ~IsOpen(triggers[2].market_status) /\ ~triggers[2].refreshed
    /\ IsOpen(triggers[3].market_status) /\ triggers[3].refreshed
    /\ ~IsOpen(triggers[4].market_status) /\ triggers[4].refreshed
    /\ triggers[4].trigger = "auto"

RunningWorkers == {w \in DOMAIN workers : workers[w].state = "RUNNING"}

\* the refresh type a worker reports is that of the trigger that started it
TagOfTrigger ==
    \A w \in DOMAIN workers :
        workers[w].refresh_type # "" =>
            workers[w].refresh_type
                = (IF workers[w].trigger = "auto" THEN "Auto-updated" ELSE "Updated")

\* C23: at most one price-update worker is running at any time; a manual
\* update or timer tick handled while a worker is RUNNING starts no worker
\* and leaves _is_auto_refresh unchanged, and the tag a worker reports on
\* completion is that of the trigger that started it.
C23_SingleWorker ==
    [][/\ Cardinality(RunningWorkers') <= 1
       /\ TagOfTrigger'
       /\ (Len(triggers') > Len(triggers) /\ RunningWorkers # {}) =>
            /\ workers' = workers
            /\ update_worker' = update_worker
            /\ is_auto_refresh' = is_auto_refresh]_vars

\* a timer tick was debounced while the only worker, started by the manual
\* update of on_mount, was running, and that worker reported "Updated"
C23_Witness ==
    /\ Len(workers) = 1
    /\ workers[1].trigger = "manual"
    /\ workers[1].refresh_type = "Updated"
    /\ \E i \in DOMAIN triggers : triggers[i].debounced /\ triggers[i].trigger = "auto"


-----------------------------------------------------------------------------
(* Properties of the API client                                            *)

\* C24: any two HTTP requests issued through the client start at least
\* min_request_interval apart, whichever threads issue them.
C24_RequestSpacing ==
    \A i, j \in DOMAIN sent :
        i < j => sent[j].time - sent[i].time >= min_request_interval


-----------------------------------------------------------------------------
(* Properties of the pattern detectors and the two calculators             *)

\* the recovery bonus calculate_trade_score adds for the arguments of a call
RecoveryBonus(a, resilience_count) ==
    TradeBase([a EXCEPT !.resilience_count = resilience_count])
        - TradeBase([a EXCEPT !.resilience_count = resilience_count, !.sma50 = NoneF])

\* C25: for every series of positive closes, with the last close as the
\* current price and sma10, sma50, trend10 and trend50 computed from that
\* series, detect_recovery_pattern returns False (Trend50 Up needs a price
\* above 1.02 x SMA50, the pattern a price below SMA50), so the Trade
\* recovery bonus and its resilience multipliers are never applied.
C25_RecoveryNeverDetected ==
    Called("detect_recovery_pattern") =>
        /\ ret.value = FALSE
        /\ \A resilience_count \in 0..MaxResilience :
            RecoveryBonus(IndicatorArgs(call.closes), resilience_count) = 0

\* a rebound after a pullback: the price is below SMA(50) and above SMA(10)
\* and trend10 is up, and only trend50 is not
C25_Witness ==
    /\ Called("detect_recovery_pattern")
    /\ FLt(call.current_price, call.sma50)
    /\ FLt(call.sma10, call.current_price)
    /\ call.trend10_bias = "up"
    /\ call.trend50_bias = "down"
    /\ ret.value = FALSE


\* the two variants of a result are the same, raw and normalized
SameVariants(r) ==
    /\ r.turnaround_raw = r.bau_raw
    /\ r.turnaround_score = r.bau_score

AboveHistoricalSma100(cl, k) ==
    LET last == IF k = Len(cl) THEN k ELSE k - 1
    IN  /\ k > Len(cl) - 60
        /\ Len(cl) >= 60
        /\ last >= 100
        /\ 100 * cl[k] > SumFrom(cl, last - 99, last)

WasStrong(cl) == \E k \in DOMAIN cl : AboveHistoricalSma100(cl, k)

DroppedTenPercent(distance_from_high) ==
    ~IsNone(distance_from_high) /\ FLe(distance_from_high, Frac(-10, 1))

PostShockCalled == Called("detect_post_shock_recovery")

C28_NeedsMoreThan100Closes ==
    (call.fn = "detect_proven_winner_capitulation" /\ Len(call.closes) <= 100)
        => (ret.kind = "returned" /\ ret.value = FALSE)


\* the four score fields of a result, in the order turnaround_raw, bau_raw,
\* turnaround_score, bau_score
ScoreFields(r) == <<r.turnaround_raw, r.bau_raw, r.turnaround_score, r.bau_score>>

\* C29: with all other inputs held fixed, a larger resilience_count (counts
\* are non-negative, as count_recovery_patterns returns them) never gives a
\* smaller turnaround_raw, bau_raw, turnaround_score or bau_score, in the
\* Trade score and in the Investment score.
C29_ResilienceMonotonic ==
    call.fn = "calculate_scores" =>
        \A r \in 0..(MaxRecoveries - 1), k \in 1..4 :
            /\ ScoreFields(ret.value[r].trade)[k] <= ScoreFields(ret.value[r + 1].trade)[k]
            /\ ScoreFields(ret.value[r].inv)[k] <= ScoreFields(ret.value[r + 1].inv)[k]

\* a call in which the recovery pattern and a capitulation are detected:
\* the raw Trade scores grow at the thresholds 1 and 3, the Investment
\* scores at 1, 3 and 5, and every field of both scores is larger at the
\* highest count than at zero
C29_Witness ==
    /\ call.fn = "calculate_scores"
    /\ CapitulationDetected(call.args, call.closes)
    /\ \A k \in 1..2 :
        /\ ScoreFields(ret.value[0].trade)[k] < ScoreFields(ret.value[1].trade)[k]
        /\ ScoreFields(ret.value[2].trade)[k] < ScoreFields(ret.value[3].trade)[k]
        /\ \A r \in {0, 2, 4} :
            ScoreFields(ret.value[r].inv)[k] < ScoreFields(ret.value[r + 1].inv)[k]
    /\ \A k \in 1..4 :
        /\ ScoreFields(ret.value[0].trade)[k] < ScoreFields(ret.value[MaxRecoveries].trade)[k]
        /\ ScoreFields(ret.value[0].inv)[k] < ScoreFields(ret.value[MaxRecoveries].inv)[k]


\* day j (0-based) of the window against the averages of the last 50 and the
\* last 10 closes up to and including that day
BelowSma50At(w, j) == 50 * w[j + 1] < SumFrom(w, j - 48, j + 1)

AboveSma50At(w, j) == 50 * w[j + 1] > SumFrom(w, j - 48, j + 1)

AboveSma10At(w, j) == 10 * w[j + 1] > SumFrom(w, j - 8, j + 1)

RECURSIVE InDipAfter(_, _)
\* is the scan in the dip after day j: the last scanned day that was not
\* exactly on SMA(50) was below it
InDipAfter(w, j) ==
    IF j < 50 THEN FALSE
    ELSE IF BelowSma50At(w, j) THEN TRUE
    ELSE IF AboveSma50At(w, j) THEN FALSE
    ELSE InDipAfter(w, j - 1)

\* the days before day i on which the scan entered the dip
DipEntries(w, i) == {j \in 50..(i - 1) : BelowSma50At(w, j) /\ ~InDipAfter(w, j - 1)}

\* the scan is in the dip and the next day is above SMA(50) but not above SMA(10)
WeakRebound == ret.value.in_dip /\ DayAboveSma50 /\ ~DayAboveSma10

\* C30: in count_recovery_patterns a day in the dip with price > SMA(50) but
\* price <= SMA(10) leaves the dip without adding to the count, and a day
\* above both averages met outside the dip is not counted (the price has to
\* fall below SMA(50) first); so the count never exceeds the number of dip
\* entries and twice the count never exceeds the number of scanned days,
\* which makes the result at most floor((window length - 50) / 2) for a
\* window that is scanned (50 closes or more; a shorter one gives 0)
C30_WeakReboundLeavesDip ==
    [][/\ (Scanning /\ ret.i < Len(call.period_closes)) =>
              /\ WeakRebound =>
                     ret'.value = [recovery_count |-> ret.value.recovery_count,
                                   in_dip |-> FALSE]
              /\ (~ret.value.in_dip /\ DayAboveSma50 /\ DayAboveSma10) =>
                     ret'.value = ret.value
              /\ ret'.value.recovery_count
                     <= Cardinality(DipEntries(call.period_closes, ret'.i))
              /\ 2 * ret'.value.recovery_count <= ret'.i - 50
       /\ (Scanning /\ ret.i >= Len(call.period_closes)) =>
              /\ ret'.kind = "returned"
              /\ ret'.value
                     <= Cardinality(DipEntries(call.period_closes, Len(call.period_closes)))
              /\ ret'.value <= (Len(call.period_closes) - 50) \div 2
       /\ (call = NoCall /\ call'.fn = "count_recovery_patterns"
               /\ Len(call'.period_closes) < 50) =>
              ret' = Returned(0)]_vars

\* the day before was a weak rebound that left the dip, the next day is
\* above both averages, and nothing has been counted for the one dip entry
C30_Witness ==
    /\ Scanning
    /\ ret.i > 51 /\ ret.i < Len(call.period_closes)
    /\ InDipAfter(call.period_closes, ret.i - 2)
    /\ AboveSma50At(call.period_closes, ret.i - 1)
    /\ ~AboveSma10At(call.period_closes, ret.i - 1)
    /\ ~ret.value.in_dip
    /\ DayAboveSma50 /\ DayAboveSma10
    /\ ret.value.recovery_count = 0
    /\ Cardinality(DipEntries(call.period_closes, ret.i)) = 1

=============================================================================
